---- MODULE Spec2Model ----
(***************************************************************************)
(* Model of the LHI Directory Monitor backend (src/server/index.js): the   *)
(* per-directory lifecycle endpoints start / stop / refresh / status, the  *)
(* OS process table they probe and signal, and the Node host process that  *)
(* runs the handlers.                                                      *)
(*                                                                         *)
(* A handler is cut into steps at its `await`s: the code between two       *)
(* awaits runs atomically on the Node event loop, and the external command *)
(* an await waits for (pgrep, pkill, ps) reads or changes the process      *)
(* table at one instant while the handler is suspended.                    *)
(*                                                                         *)
(* Environment assumptions (the external programs are not in src/):        *)
(*  - the monitor script spawned by start/refresh ("helper") launches one  *)
(*    fswatch process for its directory, in its own process group;         *)
(*  - the helper spawned by start has launched its fswatch before the      *)
(*    2 s settle timer fires ("Wait a moment for process to start");       *)
(*  - a watch process runs until signalled; the one-shot helper of refresh *)
(*    may exit by itself; SIGTERM terminates its target at once;           *)
(*  - pgrep/pkill match the pattern against the command lines of the       *)
(*    other processes only (not their own invoking shell); pids are not    *)
(*    reused.                                                              *)
(***************************************************************************)
EXTENDS Integers, Sequences, FiniteSets, TLC

\* ------------------------------------------------------------------ bounds
MaxIssued   == 3    \* requests received in one behaviour
MaxProcs    == 4    \* processes ever created in one behaviour
MaxInFlight == 2    \* requests being served at the same time
MaxLines    == 4    \* lines of a manifest text
MaxRecords  == 3    \* file records handed to the tree builder
MaxChars    == 5    \* characters of an excludes text
MaxLogLines == 7    \* lines of a log text
MaxMembers  == 2    \* members of the registry text at the start
MaxCalls    == 3    \* registry requests in one behaviour
MaxEngineIssued == 2  \* lifecycle requests beside the read and registry requests
MaxUiCalls  == 4    \* calls of the component's async functions in one behaviour

\* ------------------------------------------------------- paths and inputs
\* Paths are sequences of characters.
DirA  == <<"/", "a">>
DirAB == <<"/", "a", "/", "b">>
Dirs  == {DirA, DirAB}

NoDir == <<>>

\* req.params[0] as Express hands it over, already URL-decoded once: a path
\* as the UI sends it; a path whose leading "/" the nginx proxy stripped and
\* that still holds an escape ("%2F" is one character here); a malformed
\* escape (a bare "%").
Params ==
  { <<"/", "a">>,
    <<"a", "%2F", "b">>,
    <<"%">> }

\* decodeURIComponent: throws URIError on a malformed escape, otherwise
\* replaces every escape by the character it encodes.
DecodeThrows(s) == \E i \in 1..Len(s) : s[i] = "%"

DecodeChar(c) == IF c = "%2F" THEN "/" ELSE c

decodeURIComponent(s) == [i \in 1..Len(s) |-> DecodeChar(s[i])]

\* normalizePathParam (defined when decodeURIComponent does not throw)
normalizePathParam(encodedPath) ==
  LET watchPath == decodeURIComponent(encodedPath)
  IN  IF Len(watchPath) = 0 \/ watchPath[1] # "/"
        THEN <<"/">> \o watchPath
        ELSE watchPath

\* ---------------------------------------------------------- process table
\* kind "helper"  : bash <MONITOR_DIR>/src/lhi_directory_monitor.sh -d <dir> [--verbose]
\*                  (MONITOR_DIR ends in lhi_node_modules/lhi_directory_monitor)
\* kind "fswatch" : the fswatch process the helper launches for <dir>
\* A command line is a sequence of characters; a word that holds none of the
\* path characters is written as one element.
Cmd(p) ==
  IF p.kind = "helper"
    THEN <<"bash", " ", "lhi_directory_monitor", " ", "-d", " ">> \o p.dir
           \o (IF p.verbose THEN <<" ", "--verbose">> ELSE <<>>)
    ELSE <<"fswatch", " ">> \o p.dir

IsSubstringAt(s, t, i) ==
  /\ i + Len(t) - 1 <= Len(s)
  /\ \A k \in 1..Len(t) : s[i + k - 1] = t[k]

\* variant: the path has to be the last argument of the command line
Matches_Anchored(cmd, name, path) ==
  \E i \in 1..Len(cmd) :
    /\ cmd[i] = name
    /\ \E j \in (i + 1)..Len(cmd) :
         IsSubstringAt(cmd, path, j) /\ j + Len(path) - 1 = Len(cmd)

\* the regular expression  <name>.*<path>  of `pgrep -f` / `pkill -f`, searched
\* anywhere in a command line
Matches(cmd, name, path) ==
  \E i \in 1..Len(cmd) :
    /\ cmd[i] = name
    /\ \E j \in (i + 1)..Len(cmd) : IsSubstringAt(cmd, path, j)

\* the processes `pgrep -f "<name>.*<path>"` / `pkill -f "<name>.*<path>"` select
Pgrep(table, name, path) == {p \in table : Matches(Cmd(p), name, path)}

\* exit status of pgrep / pkill: 1 when nothing matched
MatchStatus(matched) == IF matched = {} THEN 1 ELSE 0

\* variant: the command without its `|| true`
OrTrue_Missing(status) == status

\* exit status of the shell command  `<cmd> || true`
OrTrue(status) == 0

\* the process table after `pkill -f "<name>.*<path>"`
Pkill(table, name, path) == table \ Pgrep(table, name, path)

\* the process table after both pkill commands of stop
StopEffect(table, path) ==
  Pkill(Pkill(table, "fswatch", path), "lhi_directory_monitor", path)

\* stdout of pgrep: the matching pids, one per line, in ascending order
RECURSIVE PidLines(_)
PidLines(pidset) ==
  IF pidset = {} THEN <<>>
  ELSE LET m == CHOOSE n \in pidset : \A k \in pidset : n <= k
       IN  <<m>> \o PidLines(pidset \ {m})

\* stdout.trim().split("\n"): the empty output splits into one empty line,
\* written 0 here
SplitLines(lines) == IF lines = <<>> THEN <<0>> ELSE lines

IsNonEmptyLine(x) == x # 0

\* variant: the split lines without .filter(Boolean)
FilterBoolean_Missing(lines) == lines

\* .filter(Boolean)
FilterBoolean(lines) == SelectSeq(lines, IsNonEmptyLine)

\* ------------------------------------------------------------------ state
VARIABLES
  procs,      \* the OS process table: the live watch-related processes
  nextPid,    \* next process id the OS hands out
  reqs,       \* the requests received so far, in arrival order
  hostAlive,  \* the Node process is running
  disk,       \* the files the read endpoints read (manifest, excludes, logs)
  query,      \* the request a read or registry endpoint is serving
  registry,   \* the registry document (REGISTRY_FILE)
  ui          \* the state of the DirectoryMonitor component in the browser

vars == <<procs, nextPid, reqs, hostAlive, disk, query, registry, ui>>

\* the variables of the lifecycle endpoints and those of the read endpoints
lifecycleVars == <<procs, nextPid, reqs, hostAlive>>

readVars == <<disk, query, registry, ui>>

\* a file of the watched directory
AbsentFile == [exists |-> FALSE, readable |-> FALSE, content |-> <<>>]

File(content) == [exists |-> TRUE, readable |-> TRUE, content |-> content]

Unreadable(f) == [f EXCEPT !.readable = FALSE]

\* no logs root
NoLogs == [exists |-> FALSE, dirs |-> <<>>]

NoDisk == [manifest |-> AbsentFile, excludes |-> AbsentFile, gitignore |-> AbsentFile,
           logs |-> NoLogs]

\* The registry document: `monitors` holds the members of the "monitors"
\* object in the order of the text, a member being a directory key with its
\* data (stamp: the last_update value, 0 as written at registration);
\* valid: the text is JSON of that shape.
\* (calls: the invocations of the registry script so far, for the properties)
RegistryFile(monitors) ==
  [exists |-> TRUE, readable |-> TRUE, valid |-> TRUE, monitors |-> monitors,
   calls |-> <<>>]

\* no registry document yet
NoRegistry == [RegistryFile(<<>>) EXCEPT !.exists = FALSE, !.readable = FALSE,
                                         !.valid = FALSE]

Member(dir, stamp) == [directory |-> dir, stamp |-> stamp]

HasKey(monitors, dir) == \E i \in 1..Len(monitors) : monitors[i].directory = dir

\* the monitor script records a completed manifest regeneration in the entry
\* of its directory, when the directory is registered
Touch(reg, dir) ==
  IF reg.exists /\ reg.readable /\ reg.valid /\ HasKey(reg.monitors, dir)
    THEN [reg EXCEPT !.monitors =
            [i \in 1..Len(@) |-> IF @[i].directory = dir THEN Member(dir, 1) ELSE @[i]]]
    ELSE reg

\* no read request yet
NoBody == [code |-> 0]

\* (served: the requests answered before this one, with their answers)
NoQuery ==
  [op |-> "none", pc |-> "idle", dir |-> NoDir, err |-> "none", arg |-> <<>>,
   res |-> NoBody, served |-> <<>>]

\* The component's state (useState, lines 251-268): the registry list last
\* set, the selected directory (NoDir: null), the text of the add dialog's
\* input, actionLoading and error ("null": null), and the calls of its async
\* functions that have not returned, each with the values of the render it
\* was made in
UiStart ==
  [registry |-> <<>>, selectedDir |-> NoDir, newDirPath |-> <<>>,
   actionLoading |-> "null", error |-> "null", calls |-> <<>>, sent |-> 0]

\* a response body; code 0 = no response sent; pid 0 = null
NoRes == [code |-> 0, msg |-> "none", running |-> FALSE, pid |-> 0, uptime |-> "null"]

Res(code, msg) == [NoRes EXCEPT !.code = code, !.msg = msg]

\* pc: a handler position, "done" (response sent) or "lost" (the handler died
\*     without a response)
\* dir: watchPath; child: child.pid; pids: the parsed pgrep output
\* history, read by the properties only:
\*   before: the requests that had ended when this one arrived
\*   err:    the fault the handler met
\*   seen:   the processes that matched when its pgrep ran (refresh: the
\*           watch processes that matched its directory when it arrived)
\*   sig:    the processes it sent SIGTERM to
\*   up:     start only: the fswatch of its child was running when it returned
NewReq(op, before) ==
  [op |-> op, pc |-> "begin", dir |-> NoDir, child |-> 0, pids |-> <<>>,
   res |-> NoRes, before |-> before, err |-> "none", seen |-> {}, sig |-> {},
   up |-> FALSE]

Uids == 1..Len(reqs)

Ended(u) == reqs[u].pc \in {"done", "lost"}

InFlight(u) == ~Ended(u)

Init ==
  /\ procs = {}
  /\ nextPid = 1
  /\ reqs = <<>>
  /\ hostAlive = TRUE
  /\ disk = NoDisk
  /\ query = NoQuery
  /\ registry = NoRegistry
  /\ ui = UiStart

\* outcome of child_process.spawn: "ok"; "async": ENOENT/EACCES/EAGAIN/EMFILE,
\* reported by an 'error' event on the child on the next tick, which nothing
\* listens to; "throw": any other failure, thrown synchronously
SpawnOutcomes == {"ok", "async", "throw"}

Helper(pid, d, verbose) ==
  [pid |-> pid, kind |-> "helper", dir |-> d, pgid |-> pid, verbose |-> verbose,
   launched |-> FALSE]

Fswatch(pid, h) ==
  [pid |-> pid, kind |-> "fswatch", dir |-> h.dir, pgid |-> h.pgid, verbose |-> FALSE,
   launched |-> TRUE]

\* res.json(...) / res.status(code).json(...)
Responded(r, res) == [r EXCEPT !.pc = "done", !.res = res]

\* catch (error) { res.status(500).json({ error: error.message }) }
Failed(r, message) == [r EXCEPT !.pc = "done", !.res = Res(500, message), !.err = message]

\* a fault leaves the handler: no response
Lost(r, message) == [r EXCEPT !.pc = "lost", !.err = message]

At(u, op, pc) == hostAlive /\ reqs[u].op = op /\ reqs[u].pc = pc

\* a request can arrive
Arrive ==
  /\ hostAlive
  /\ Len(reqs) < MaxIssued
  /\ Cardinality({u \in Uids : InFlight(u)}) < MaxInFlight

New(op) == NewReq(op, {u \in Uids : Ended(u)})

\* ------------------------------------------------- POST /api/start/*
\* the request arrives: normalizePathParam; execAsync(`pgrep ...`) is started
StartBegin(param) ==
  /\ Arrive
  /\ reqs' = Append(reqs,
       IF DecodeThrows(param)
         THEN Failed(New("start"), "URI malformed")
         ELSE [New("start") EXCEPT !.pc = "probe", !.dir = normalizePathParam(param)])
  /\ UNCHANGED <<procs, nextPid, hostAlive>>

\* variant: a start holds a per-directory lock from its probe to its response,
\* so its pgrep waits while another start of the directory is past its own
StartProbe_Locked(u) ==
  /\ At(u, "start", "probe")
  /\ \A v \in Uids : /\ v # u /\ reqs[v].op = "start" /\ reqs[v].dir = reqs[u].dir
                     => reqs[v].pc \notin {"spawn", "settle"}
  /\ UNCHANGED <<procs, nextPid, hostAlive>>
  /\ \E shellOk \in BOOLEAN :
       LET matched == Pgrep(procs, "fswatch", reqs[u].dir)
           r       == [reqs[u] EXCEPT !.seen = matched]
       IN  IF ~shellOk
             THEN reqs' = [reqs EXCEPT ![u] = Failed(reqs[u], "spawn sh")]
           ELSE IF OrTrue(MatchStatus(matched)) # 0
             THEN reqs' = [reqs EXCEPT ![u] = Failed(r, "Command failed")]
           ELSE IF PidLines({p.pid : p \in matched}) # <<>>
             THEN reqs' = [reqs EXCEPT ![u] = Responded(r, Res(200, "already running"))]
           ELSE reqs' = [reqs EXCEPT ![u] = [r EXCEPT !.pc = "spawn"]]

\* `pgrep -f "fswatch.*${watchPath}" || true` runs; if (stdout.trim()) the
\* handler answers "already running"
StartProbe(u) ==
  /\ At(u, "start", "probe")
  /\ UNCHANGED <<procs, nextPid, hostAlive>>
  /\ \E shellOk \in BOOLEAN :
       LET matched == Pgrep(procs, "fswatch", reqs[u].dir)
           r       == [reqs[u] EXCEPT !.seen = matched]
       IN  IF ~shellOk
             THEN reqs' = [reqs EXCEPT ![u] = Failed(reqs[u], "spawn sh")]
           ELSE IF OrTrue(MatchStatus(matched)) # 0
             THEN reqs' = [reqs EXCEPT ![u] = Failed(r, "Command failed")]
           ELSE IF PidLines({p.pid : p \in matched}) # <<>>
             THEN reqs' = [reqs EXCEPT ![u] = Responded(r, Res(200, "already running"))]
           ELSE reqs' = [reqs EXCEPT ![u] = [r EXCEPT !.pc = "spawn"]]

\* spawn("bash", [monitorScript, "-d", watchPath, "--verbose"], {detached}); child.unref()
StartSpawn(u) ==
  /\ At(u, "start", "spawn")
  /\ \E outcome \in SpawnOutcomes :
       CASE outcome = "ok" ->
              /\ nextPid <= MaxProcs
              /\ procs' = procs \cup {Helper(nextPid, reqs[u].dir, TRUE)}
              /\ nextPid' = nextPid + 1
              /\ reqs' = [reqs EXCEPT ![u].pc = "settle", ![u].child = nextPid]
              /\ UNCHANGED hostAlive
         [] outcome = "async" ->
              /\ hostAlive' = FALSE
              /\ reqs' = [reqs EXCEPT ![u] = Lost(@, "spawn bash")]
              /\ UNCHANGED <<procs, nextPid>>
         [] outcome = "throw" ->
              /\ reqs' = [reqs EXCEPT ![u] = Failed(@, "spawn bash")]
              /\ UNCHANGED <<procs, nextPid, hostAlive>>

\* the 2000 ms settle timer fires; the script has reached its watch loop by then
StartSettle(u) ==
  /\ At(u, "start", "settle")
  /\ \A p \in procs : p.pid = reqs[u].child => p.launched
  /\ reqs' = [reqs EXCEPT ![u] =
       Responded([@ EXCEPT !.up = \E p \in procs : p.kind = "fswatch"
                                                      /\ p.pgid = reqs[u].child],
                 Res(200, "started"))]
  /\ UNCHANGED <<procs, nextPid, hostAlive>>

\* -------------------------------------------------- POST /api/stop/*
\* the request arrives: normalizePathParam; execAsync(`pkill ...`) is started
StopBegin(param) ==
  /\ Arrive
  /\ reqs' = Append(reqs,
       IF DecodeThrows(param)
         THEN Failed(New("stop"), "URI malformed")
         ELSE [New("stop") EXCEPT !.pc = "watch", !.dir = normalizePathParam(param)])
  /\ UNCHANGED <<procs, nextPid, hostAlive>>

\* `pkill -f "fswatch.*${watchPath}" || true` runs
StopKillWatch(u) ==
  /\ At(u, "stop", "watch")
  /\ UNCHANGED <<nextPid, hostAlive>>
  /\ \E shellOk \in BOOLEAN :
       LET matched == Pgrep(procs, "fswatch", reqs[u].dir) IN
       IF ~shellOk
         THEN reqs' = [reqs EXCEPT ![u] = Failed(@, "spawn sh")] /\ UNCHANGED procs
         ELSE /\ procs' = Pkill(procs, "fswatch", reqs[u].dir)
              /\ reqs' = [reqs EXCEPT ![u] =
                   IF OrTrue(MatchStatus(matched)) # 0
                     THEN Failed([@ EXCEPT !.sig = @ \cup matched], "Command failed")
                     ELSE [@ EXCEPT !.sig = @ \cup matched, !.pc = "helper"]]

\* `pkill -f "lhi_directory_monitor.*${watchPath}" || true` runs, then the response
StopKillHelper(u) ==
  /\ At(u, "stop", "helper")
  /\ UNCHANGED <<nextPid, hostAlive>>
  /\ \E shellOk \in BOOLEAN :
       LET matched == Pgrep(procs, "lhi_directory_monitor", reqs[u].dir) IN
       IF ~shellOk
         THEN reqs' = [reqs EXCEPT ![u] = Failed(@, "spawn sh")] /\ UNCHANGED procs
         ELSE /\ procs' = Pkill(procs, "lhi_directory_monitor", reqs[u].dir)
              /\ reqs' = [reqs EXCEPT ![u] =
                   IF OrTrue(MatchStatus(matched)) # 0
                     THEN Failed([@ EXCEPT !.sig = @ \cup matched], "Command failed")
                     ELSE Responded([@ EXCEPT !.sig = @ \cup matched], Res(200, "stopped"))]

\* ----------------------------------------------- POST /api/refresh/*
\* the request arrives: normalizePathParam, then
\* spawn("bash", [monitorScript, "-d", watchPath], {detached})
RefreshBegin(param) ==
  /\ Arrive
  /\ IF DecodeThrows(param)
       THEN /\ reqs' = Append(reqs, Failed(New("refresh"), "URI malformed"))
            /\ UNCHANGED <<procs, nextPid, hostAlive>>
       ELSE LET d == normalizePathParam(param)
                r == [New("refresh") EXCEPT !.dir = d, !.seen = Pgrep(procs, "fswatch", d)]
            IN
            \E outcome \in SpawnOutcomes :
              CASE outcome = "ok" ->
                     /\ nextPid <= MaxProcs
                     /\ procs' = procs \cup {Helper(nextPid, r.dir, FALSE)}
                     /\ nextPid' = nextPid + 1
                     /\ reqs' = Append(reqs, [r EXCEPT !.pc = "wait", !.child = nextPid])
                     /\ UNCHANGED hostAlive
                [] outcome = "async" ->
                     /\ hostAlive' = FALSE
                     /\ reqs' = Append(reqs, Lost(r, "spawn bash"))
                     /\ UNCHANGED <<procs, nextPid>>
                [] outcome = "throw" ->
                     /\ reqs' = Append(reqs, Failed(r, "spawn bash"))
                     /\ UNCHANGED <<procs, nextPid, hostAlive>>

\* process.kill(-pgid, "SIGTERM") throws ESRCH when the group has no process
KillThrows(group) == group = {}

\* variant: the kill stands outside a try/catch
TryCatch_Missing(throws) == throws

\* try { ... } catch (e) { }: whether the fault leaves the block
TryCatch(throws) == FALSE

\* variant: the refresh ends its one-shot run by the pattern kill of stop
RefreshKill_ByPattern(u) ==
  /\ At(u, "refresh", "wait")
  /\ LET group == Pgrep(procs, "fswatch", reqs[u].dir)
                    \cup Pgrep(procs, "lhi_directory_monitor", reqs[u].dir) IN
     /\ procs' = procs \ group
     /\ reqs' = [reqs EXCEPT ![u] =
                   Responded([@ EXCEPT !.sig = group], Res(200, "refreshed"))]
  /\ UNCHANGED <<nextPid, hostAlive, registry>>

\* variant: the signal goes to the child alone, not to its process group
RefreshKill_ChildOnly(u) ==
  /\ At(u, "refresh", "wait")
  /\ LET group == {p \in procs : p.pid = reqs[u].child} IN
     /\ procs' = procs \ group
     /\ reqs' = [reqs EXCEPT ![u] =
                   Responded([@ EXCEPT !.sig = group], Res(200, "refreshed"))]
  /\ UNCHANGED <<nextPid, hostAlive, registry>>

\* variant: the handler records the regenerated manifest in the registry
RefreshKill_Recording(u) ==
  /\ At(u, "refresh", "wait")
  /\ LET group == {p \in procs : p.pgid = reqs[u].child} IN
     /\ procs' = procs \ group
     /\ reqs' = [reqs EXCEPT ![u] =
                   Responded([@ EXCEPT !.sig = group], Res(200, "refreshed"))]
  /\ registry' = Touch(registry, reqs[u].dir)
  /\ UNCHANGED <<nextPid, hostAlive>>

\* the 5000 ms timer fires: process.kill(-child.pid, "SIGTERM") inside
\* try/catch, then the response; the handler writes no file
RefreshKill(u) ==
  /\ At(u, "refresh", "wait")
  /\ LET group == {p \in procs : p.pgid = reqs[u].child} IN
     /\ procs' = procs \ group
     /\ reqs' = [reqs EXCEPT ![u] =
                   IF TryCatch(KillThrows(group))
                     THEN Failed([@ EXCEPT !.sig = group], "kill ESRCH")
                     ELSE Responded([@ EXCEPT !.sig = group], Res(200, "refreshed"))]
  /\ UNCHANGED <<nextPid, hostAlive, registry>>

\* ------------------------------------------------- GET /api/status/*
\* the request arrives: normalizePathParam; execAsync(`pgrep ...`) is
\* started.  When the decoding throws, the catch block calls
\* normalizePathParam again, which throws again: an unhandled rejection,
\* which ends the host or not as the Node version has it.
StatusBegin(param) ==
  /\ Arrive
  /\ UNCHANGED <<procs, nextPid>>
  /\ IF DecodeThrows(param)
       THEN /\ reqs' = Append(reqs, Lost(New("status"), "URI malformed"))
            /\ hostAlive' \in BOOLEAN
       ELSE /\ reqs' = Append(reqs, [New("status") EXCEPT !.pc = "pgrep",
                                       !.dir = normalizePathParam(param)])
            /\ UNCHANGED hostAlive

\* the catch block of the status handler: res.json({running: false, pid: null, error})
StatusFailed(r, message) ==
  [r EXCEPT !.pc = "done", !.res = Res(200, "error"), !.err = message]

\* `pgrep -f "fswatch.*${watchPath}" || true` runs; pids and running are
\* computed; with no pid the response follows (the fs.stat of the manifest
\* before it reads no state of this model and cannot fail the handler)
StatusPgrep(u) ==
  /\ At(u, "status", "pgrep")
  /\ UNCHANGED <<procs, nextPid, hostAlive>>
  /\ \E shellOk \in BOOLEAN :
       LET matched == Pgrep(procs, "fswatch", reqs[u].dir)
           pids    == FilterBoolean(SplitLines(PidLines({p.pid : p \in matched})))
           running == Len(pids) > 0
           r       == [reqs[u] EXCEPT !.seen = matched, !.pids = pids]
       IN  IF ~shellOk
             THEN reqs' = [reqs EXCEPT ![u] = StatusFailed(reqs[u], "spawn sh")]
           ELSE IF OrTrue(MatchStatus(matched)) # 0
             THEN reqs' = [reqs EXCEPT ![u] = StatusFailed(r, "Command failed")]
           ELSE IF running /\ pids[1] # 0
             THEN reqs' = [reqs EXCEPT ![u] = [r EXCEPT !.pc = "ps"]]
           ELSE reqs' = [reqs EXCEPT ![u] =
                  Responded(r, [code |-> 200, msg |-> "status", running |-> running,
                                pid |-> IF running THEN pids[1] ELSE 0,
                                uptime |-> "null"])]

\* variant: the probe reports the last pid of the pgrep output
StatusPs_LastPid(u) ==
  /\ At(u, "status", "ps")
  /\ UNCHANGED <<procs, nextPid, hostAlive>>
  /\ \E shellOk \in BOOLEAN :
       LET pid    == reqs[u].pids[Len(reqs[u].pids)]
           uptime == IF ~shellOk THEN "null"
                     ELSE IF \E p \in procs : p.pid = pid THEN "etime"
                     ELSE ""
       IN reqs' = [reqs EXCEPT ![u] =
            Responded(@, [code |-> 200, msg |-> "status", running |-> TRUE,
                          pid |-> pid, uptime |-> uptime])]

\* `ps -p ${pids[0]} -o etime= || true` runs inside try/catch, then the
\* response; ps prints nothing for a pid that is gone
StatusPs(u) ==
  /\ At(u, "status", "ps")
  /\ UNCHANGED <<procs, nextPid, hostAlive>>
  /\ \E shellOk \in BOOLEAN :
       LET pid    == reqs[u].pids[1]
           uptime == IF ~shellOk THEN "null"
                     ELSE IF \E p \in procs : p.pid = pid THEN "etime"
                     ELSE ""
       IN reqs' = [reqs EXCEPT ![u] =
            Responded(@, [code |-> 200, msg |-> "status", running |-> TRUE,
                          pid |-> pid, uptime |-> uptime])]

\* --------------------------------------------------- the environment
\* the monitor script reaches its watch loop and launches fswatch
HelperLaunch(h) ==
  /\ h \in procs /\ h.kind = "helper" /\ ~h.launched
  /\ nextPid <= MaxProcs
  /\ procs' = (procs \ {h}) \cup {[h EXCEPT !.launched = TRUE], Fswatch(nextPid, h)}
  /\ nextPid' = nextPid + 1
  /\ registry' = Touch(registry, h.dir)
  /\ UNCHANGED <<reqs, hostAlive>>

\* the one-shot script of refresh exits by itself after writing the manifest
OneShotExit(h) ==
  /\ h \in procs /\ h.kind = "helper" /\ ~h.verbose /\ ~h.launched
  /\ procs' = procs \ {h}
  /\ registry' = Touch(registry, h.dir)
  /\ UNCHANGED <<nextPid, reqs, hostAlive>>

Next ==
  \/ \E param \in Params : StartBegin(param) /\ UNCHANGED readVars
  \/ \E u \in Uids : StartProbe(u) /\ UNCHANGED readVars
  \/ \E u \in Uids : StartSpawn(u) /\ UNCHANGED readVars
  \/ \E u \in Uids : StartSettle(u) /\ UNCHANGED readVars
  \/ \E param \in Params : StopBegin(param) /\ UNCHANGED readVars
  \/ \E u \in Uids : StopKillWatch(u) /\ UNCHANGED readVars
  \/ \E u \in Uids : StopKillHelper(u) /\ UNCHANGED readVars
  \/ \E param \in Params : RefreshBegin(param) /\ UNCHANGED readVars
  \/ \E u \in Uids : RefreshKill(u) /\ UNCHANGED <<disk, query, ui>>
  \/ \E param \in Params : StatusBegin(param) /\ UNCHANGED readVars
  \/ \E u \in Uids : StatusPgrep(u) /\ UNCHANGED readVars
  \/ \E u \in Uids : StatusPs(u) /\ UNCHANGED readVars
  \/ \E h \in procs : HelperLaunch(h) /\ UNCHANGED <<disk, query, ui>>
  \/ \E h \in procs : OneShotExit(h) /\ UNCHANGED <<disk, query, ui>>

Spec == Init /\ [][Next]_vars

\* ============================================================ read endpoints
\* ------------------------------------------------------------ text helpers
\* String.prototype.split(sep): the pieces between the separators
RECURSIVE Split(_, _)
Split(s, sep) ==
  IF \A i \in 1..Len(s) : s[i] # sep
    THEN <<s>>
    ELSE LET i == CHOOSE k \in 1..Len(s) : s[k] = sep /\ \A j \in 1..(k - 1) : s[j] # sep
         IN  <<SubSeq(s, 1, i - 1)>> \o Split(SubSeq(s, i + 1, Len(s)), sep)

\* variant: a node is named by its own segment, not by the cumulative path
JoinPath_PartOnly(currentPath, part) == part

\* currentPath = currentPath ? `${currentPath}/${part}` : part
JoinPath(currentPath, part) ==
  IF currentPath = <<>> THEN part ELSE currentPath \o <<"/">> \o part

\* currentPath after the first i parts
RECURSIVE CumPath(_, _)
CumPath(parts, i) ==
  IF i = 0 THEN <<>> ELSE JoinPath(CumPath(parts, i - 1), parts[i])

\* ------------------------------------------------------- manifest text
\* A manifest text is a sequence of lines (content.split("\n")); a line is
\* given by what the parser's tests tell apart:
\*   "Timestamp:" / "Directory:" header, "File Listing:", "Summary:", a
\*   separator of dashes, `Total Files: n`, `Total Directories: n`, a file
\*   line `"<path>" (<size> bytes) - Modified: <text>`, and any other line
\*   (blank or stray output)
Line(kind) == [kind |-> kind, n |-> 0, path |-> <<>>, size |-> 0]

TotalLine(kind, n) == [Line(kind) EXCEPT !.n = n]

FileLine(path, size) == [Line("File") EXCEPT !.path = path, !.size = size]

\* `undefined` (size of a directory node)
Undefined == -1

\* parser state before the first line
ParseStart ==
  [timestamp |-> "null", directory |-> NoDir, total_files |-> 0, total_directories |-> 0,
   files |-> <<>>, inFileListing |-> FALSE, inSummary |-> FALSE]

\* variant: the "Summary:" header leaves the file-listing mode on
ParseLine_ListingKept(st, line) ==
  CASE line.kind = "File Listing:" -> [st EXCEPT !.inFileListing = TRUE, !.inSummary = FALSE]
    [] line.kind = "Summary:"      -> [st EXCEPT !.inSummary = TRUE]
    [] OTHER -> st

\* variant: a line of the record grammar is pushed in whatever section it lies
ParseLine_AnySection(st, line) ==
  CASE line.kind = "File Listing:" -> [st EXCEPT !.inFileListing = TRUE, !.inSummary = FALSE]
    [] line.kind = "Summary:"      -> [st EXCEPT !.inFileListing = FALSE, !.inSummary = TRUE]
    [] line.kind = "Dashes"        -> st
    [] OTHER ->
         LET st1 == CASE line.kind = "Timestamp:" -> [st EXCEPT !.timestamp = "t"]
                      [] line.kind = "Directory:" -> [st EXCEPT !.directory = DirA]
                      [] OTHER -> st
             st2 == IF st1.inSummary /\ line.kind = "Total Files:"
                      THEN [st1 EXCEPT !.total_files = line.n]
                    ELSE IF st1.inSummary /\ line.kind = "Total Directories:"
                      THEN [st1 EXCEPT !.total_directories = line.n]
                    ELSE st1
         IN  IF line.kind = "File"
               THEN [st2 EXCEPT !.files = Append(@, [path |-> line.path, type |-> "file",
                                                      size |-> line.size, modified |-> "m"])]
               ELSE st2

\* one turn of `for (const line of lines)`
ParseLine(st, line) ==
  CASE line.kind = "File Listing:" -> [st EXCEPT !.inFileListing = TRUE, !.inSummary = FALSE]
    [] line.kind = "Summary:"      -> [st EXCEPT !.inFileListing = FALSE, !.inSummary = TRUE]
    [] line.kind = "Dashes"        -> st
    [] OTHER ->
         LET st1 == CASE line.kind = "Timestamp:" -> [st EXCEPT !.timestamp = "t"]
                      [] line.kind = "Directory:" -> [st EXCEPT !.directory = DirA]
                      [] OTHER -> st
             st2 == IF st1.inSummary /\ line.kind = "Total Files:"
                      THEN [st1 EXCEPT !.total_files = line.n]
                    ELSE IF st1.inSummary /\ line.kind = "Total Directories:"
                      THEN [st1 EXCEPT !.total_directories = line.n]
                    ELSE st1
         IN  IF st2.inFileListing /\ line.kind = "File"
               THEN [st2 EXCEPT !.files = Append(@, [path |-> line.path, type |-> "file",
                                                      size |-> line.size, modified |-> "m"])]
               ELSE st2

\* parser state after the first k lines
RECURSIVE Scan(_, _)
Scan(lines, k) ==
  IF k = 0 THEN ParseStart ELSE ParseLine(Scan(lines, k - 1), lines[k])

\* variant: the loop over the parts runs to the last part, the file itself
DirectoriesOf_WithFile(files) ==
  UNION { LET parts == Split(files[j].path, "/")
          IN  {CumPath(parts, i) : i \in 1..Len(parts)} : j \in 1..Len(files) }

\* the set `directories` built from the file paths
DirectoriesOf(files) ==
  UNION { LET parts == Split(files[j].path, "/")
          IN  {CumPath(parts, i) : i \in 1..(Len(parts) - 1)} : j \in 1..Len(files) }

\* ------------------------------------------------------------ tree builder
\* The tree is kept as the sequence of its nodes in creation order; parent is
\* the index of the node whose `children` array holds the node, 0 for the
\* top-level array.  Siblings are in creation order.
\* variant: currentLevel is never moved to the children of the node found
RECURSIVE Walk_NoDescend(_, _, _, _, _)
Walk_NoDescend(tree, level, parts, i, file) ==
  IF i > Len(parts) THEN tree
  ELSE LET currentPath == CumPath(parts, i)
           isLast == i = Len(parts)
           isFile == isLast /\ file.type # "directory"
           found  == {k \in 1..Len(tree) : tree[k].parent = level /\ tree[k].path = currentPath}
           tree2  == IF found = {}
                       THEN Append(tree,
                              [path |-> currentPath,
                               type |-> IF isFile THEN "file" ELSE "directory",
                               size |-> IF isLast THEN file.size ELSE Undefined,
                               parent |-> level])
                       ELSE tree
       IN  Walk_NoDescend(tree2, level, parts, i + 1, file)

\* one record: the loop over its parts, from part i, currentLevel = level
RECURSIVE Walk(_, _, _, _, _)
Walk(tree, level, parts, i, file) ==
  IF i > Len(parts) THEN tree
  ELSE LET currentPath == CumPath(parts, i)
           isLast == i = Len(parts)
           isFile == isLast /\ file.type # "directory"
           found  == {k \in 1..Len(tree) : tree[k].parent = level /\ tree[k].path = currentPath}
           tree2  == IF found = {}
                       THEN Append(tree,
                              [path |-> currentPath,
                               type |-> IF isFile THEN "file" ELSE "directory",
                               size |-> IF isLast THEN file.size ELSE Undefined,
                               parent |-> level])
                       ELSE tree
           existing == IF found = {} THEN Len(tree) + 1
                       ELSE CHOOSE k \in found : \A m \in found : k <= m
       IN  Walk(tree2, IF tree2[existing].type = "directory" THEN existing ELSE level,
                parts, i + 1, file)

\* variant: the records are taken from the last to the first
RECURSIVE BuildFrom_LastFirst(_, _, _)
BuildFrom_LastFirst(tree, files, j) ==
  IF j > Len(files) THEN tree
  ELSE LET file == files[Len(files) + 1 - j]
       IN  BuildFrom_LastFirst(Walk(tree, 0, Split(file.path, "/"), 1, file), files, j + 1)

\* for (const file of files)
RECURSIVE BuildFrom(_, _, _)
BuildFrom(tree, files, j) ==
  IF j > Len(files) THEN tree
  ELSE BuildFrom(Walk(tree, 0, Split(files[j].path, "/"), 1, files[j]), files, j + 1)

buildTreeFromFiles(files) == BuildFrom(<<>>, files, 1)

\* variant: the counts of the summary are kept also when they are zero
parseTextManifest_SummaryOnly(content) ==
  LET st    == Scan(content, Len(content))
      files == st.files
  IN  [directory |-> st.directory,
       timestamp |-> st.timestamp,
       total_files |-> st.total_files,
       total_directories |-> st.total_directories,
       files |-> files,
       tree |-> buildTreeFromFiles(files)]

\* (files: the parsed records, local to the function, kept for the properties)
parseTextManifest(content) ==
  LET st    == Scan(content, Len(content))
      files == st.files
  IN  [directory |-> st.directory,
       timestamp |-> st.timestamp,
       total_files |-> IF st.total_files = 0 THEN Len(files) ELSE st.total_files,
       total_directories |->
         IF st.total_directories = 0 /\ Len(files) > 0
           THEN Cardinality(DirectoriesOf(files))
           ELSE st.total_directories,
       files |-> files,
       tree |-> buildTreeFromFiles(files)]

\* ------------------------------------------------- the read requests
\* One read request is served in a behaviour of SpecRead; the files are those
\* of the directory it names and do not change while it is served.
\* a read request arrives: normalizePathParam
BeginQuery(op, param, pc) ==
  /\ query.pc = "idle"
  /\ query' = IF DecodeThrows(param)
                THEN [query EXCEPT !.op = op, !.pc = "done", !.err = "URI malformed",
                                   !.res = [code |-> 500, error |-> "URI malformed"]]
                ELSE [query EXCEPT !.op = op, !.pc = pc, !.dir = normalizePathParam(param)]
  /\ UNCHANGED <<disk, registry, ui>>

QueryAt(op, pc) == query.op = op /\ query.pc = pc

\* res.json(body)
Answer(body) == query' = [query EXCEPT !.pc = "done", !.res = body]

\* the outer catch: res.status(500).json({ error: error.message })
AnswerError(message) ==
  query' = [query EXCEPT !.pc = "done", !.err = message,
                         !.res = [code |-> 500, error |-> message]]

\* ------------------------------------------------ GET /api/manifest/*
ManifestBegin(param) == BeginQuery("manifest", param, "access")

\* variant: a missing manifest is answered with status 404 and an error body
ManifestAccess_NotFound ==
  /\ QueryAt("manifest", "access")
  /\ UNCHANGED <<disk, registry, ui>>
  /\ IF disk.manifest.exists
       THEN query' = [query EXCEPT !.pc = "read"]
       ELSE Answer([code |-> 404, error |-> "No manifest file found"])

\* await fs.access(manifestPath): without the file, the empty result
ManifestAccess ==
  /\ QueryAt("manifest", "access")
  /\ UNCHANGED <<disk, registry, ui>>
  /\ IF disk.manifest.exists
       THEN query' = [query EXCEPT !.pc = "read"]
       ELSE Answer([code |-> 200, directory |-> query.dir, timestamp |-> "null",
                    total_files |-> 0, total_directories |-> 0, tree |-> <<>>,
                    error |-> "No manifest file found"])

\* new Date().toISOString(): the time of the call
Clock == {"now", "later"}

\* the response body of the manifest query
ManifestBody(parsed, watchPath, now) ==
  [code |-> 200,
   directory |-> IF parsed.directory = NoDir THEN watchPath ELSE parsed.directory,
   timestamp |-> IF parsed.timestamp = "null" THEN now ELSE parsed.timestamp,
   total_files |-> parsed.total_files,
   total_directories |-> parsed.total_directories,
   tree |-> parsed.tree,
   error |-> "none"]

\* variant: the array `files` of the parser lives on between the calls, so
\* the records of the call before are parsed into the result once more
ManifestRead_SharedFiles ==
  /\ QueryAt("manifest", "read")
  /\ UNCHANGED <<disk, registry, ui>>
  /\ IF ~disk.manifest.readable
       THEN AnswerError("read failed")
       ELSE \E now \in Clock :
              LET content == disk.manifest.content
                  earlier == IF query.served = <<>> THEN <<>> ELSE content
              IN  Answer(ManifestBody(parseTextManifest(earlier \o content), query.dir, now))

\* await fs.readFile(manifestPath), parseTextManifest, the response
ManifestRead ==
  /\ QueryAt("manifest", "read")
  /\ UNCHANGED <<disk, registry, ui>>
  /\ IF ~disk.manifest.readable
       THEN AnswerError("read failed")
       ELSE \E now \in Clock :
              Answer(ManifestBody(parseTextManifest(disk.manifest.content), query.dir, now))

\* ------------------------------------------------ GET /api/excludes/*
\* An excludes text is a sequence of characters: "\n", " " (white space),
\* "#", "/", and "n" (any other run of characters).
\* variant: the line is taken untrimmed
Trim_Missing(s) == s

\* String.prototype.trim
Trim(s) ==
  LET inked == {i \in 1..Len(s) : s[i] \notin {" ", "\n"}}
  IN  IF inked = {} THEN <<>>
      ELSE SubSeq(s, CHOOSE i \in inked : \A j \in inked : i <= j,
                     CHOOSE i \in inked : \A j \in inked : j <= i)

\* the loop body of parseExcludes over the lines from k on
RECURSIVE ExcludesFrom(_, _)
ExcludesFrom(lines, k) ==
  IF k > Len(lines) THEN <<>>
  ELSE LET trimmed == Trim(lines[k]) IN
       IF trimmed = <<>> \/ trimmed[1] = "#"
         THEN ExcludesFrom(lines, k + 1)
         ELSE <<[pattern |-> trimmed, isDirectory |-> trimmed[Len(trimmed)] = "/"]>>
                \o ExcludesFrom(lines, k + 1)

parseExcludes(content) == ExcludesFrom(Split(content, "\n"), 1)

ExcludesBegin(param) == BeginQuery("excludes", param, "primary")

\* variant: .gitignore is looked up first
ExcludesPrimary_FallbackFirst ==
  /\ QueryAt("excludes", "primary")
  /\ UNCHANGED <<disk, registry, ui>>
  /\ IF disk.gitignore.exists /\ disk.gitignore.readable
       THEN Answer([code |-> 200, patterns |-> parseExcludes(disk.gitignore.content),
                    source |-> ".gitignore"])
       ELSE IF disk.excludes.exists /\ disk.excludes.readable
         THEN Answer([code |-> 200, patterns |-> parseExcludes(disk.excludes.content),
                      source |-> ".lhi_excludes"])
       ELSE query' = [query EXCEPT !.pc = "fallback"]

\* PRIORITY 1: fs.access and fs.readFile of .lhi_excludes inside try/catch
ExcludesPrimary ==
  /\ QueryAt("excludes", "primary")
  /\ UNCHANGED <<disk, registry, ui>>
  /\ IF disk.excludes.exists /\ disk.excludes.readable
       THEN Answer([code |-> 200, patterns |-> parseExcludes(disk.excludes.content),
                    source |-> ".lhi_excludes"])
       ELSE query' = [query EXCEPT !.pc = "fallback",
                        !.err = IF disk.excludes.exists THEN "read failed" ELSE @]

\* PRIORITY 2: fs.access and fs.readFile of .gitignore inside try/catch
ExcludesFallback ==
  /\ QueryAt("excludes", "fallback")
  /\ UNCHANGED <<disk, registry, ui>>
  /\ IF disk.gitignore.exists /\ disk.gitignore.readable
       THEN Answer([code |-> 200, patterns |-> parseExcludes(disk.gitignore.content),
                    source |-> ".gitignore"])
       ELSE query' = [query EXCEPT !.pc = "done",
                        !.err = IF disk.gitignore.exists THEN "read failed" ELSE @,
                        !.res = [code |-> 200, patterns |-> <<>>, source |-> "null"]]

\* ------------------------------------------------- GET /api/changes/*
\* A log text is a sequence of lines; a line either holds the marker
\* "[fswatch] Change detected:" and matches the change-line grammar
\* ("change", with its timestamp and file), or holds the marker and fails the
\* grammar ("marked"), or holds no marker ("other").
ChangeLine(ts) == [kind |-> "change", timestamp |-> ts, file |-> "f"]

MarkedLine == [kind |-> "marked", timestamp |-> 0, file |-> "f"]

OtherLine == [kind |-> "other", timestamp |-> 0, file |-> "f"]

\* line.includes("[fswatch] Change detected:")
HasMarker(line) == line.kind \in {"change", "marked"}

\* line.match(/\[([^\]]+)\]\[fswatch\] Change detected: (.+)/)
MatchesGrammar(line) == line.kind = "change"

\* Array.prototype.slice(-n)
SliceLast(seq, n) ==
  SubSeq(seq, IF Len(seq) > n THEN Len(seq) - n + 1 ELSE 1, Len(seq))

Reverse(seq) == [i \in 1..Len(seq) |-> seq[Len(seq) + 1 - i]]

\* changeLines.slice(-5).map(...).filter(Boolean).reverse()
RecentChangesOf(lines) ==
  LET changeLines == SelectSeq(lines, HasMarker)
      matched     == SelectSeq(SliceLast(changeLines, 5), MatchesGrammar)
  IN  Reverse([i \in 1..Len(matched) |->
                 [timestamp |-> matched[i].timestamp, file |-> matched[i].file]])

\* path.basename(watchPath)
Basename(path) ==
  LET parts == SelectSeq(Split(path, "/"), LAMBDA part : part # <<>>)
  IN  IF parts = <<>> THEN <<>> ELSE parts[Len(parts)]

\* .toLowerCase().replace(/[^a-z0-9]/g, "_")
NormalizeName(name) ==
  [i \in 1..Len(name) |-> IF name[i] \in {"a", "b"} THEN name[i] ELSE "_"]

\* d.startsWith("ldm_") && d.includes(<normalized dirName>)
MatchesLogDir(d, dirName) ==
  /\ Len(d) > 0 /\ d[1] = "ldm_"
  /\ \/ dirName = <<>>
     \/ \E j \in 1..Len(d) : IsSubstringAt(d, dirName, j)

\* a directory of the logs root: its name, its mtime, the file names and texts
\* in it in readdir order
LogDir(name, mtime, files) == [name |-> name, mtime |-> mtime, files |-> files]

LogFile(isLog, content) == [isLog |-> isLog, content |-> content]

\* dirsWithStats.sort((a, b) => b.mtime - a.mtime)[0]: the first of the
\* directories with the greatest mtime
LatestDir(dirs) ==
  dirs[CHOOSE i \in 1..Len(dirs) :
         /\ \A j \in 1..Len(dirs) : dirs[j].mtime <= dirs[i].mtime
         /\ \A j \in 1..(i - 1) : dirs[j].mtime < dirs[i].mtime]

\* the inner try block: the recent changes read from the logs root
ReadRecentChanges(logs, watchPath) ==
  LET matchingDirs ==
        SelectSeq(logs.dirs,
                  LAMBDA d : MatchesLogDir(d.name, NormalizeName(Basename(watchPath))))
  IN  IF ~logs.exists \/ matchingDirs = <<>> THEN <<>>
      ELSE LET logFiles == SelectSeq(LatestDir(matchingDirs).files, LAMBDA f : f.isLog)
           IN  IF logFiles = <<>> THEN <<>>
               ELSE RecentChangesOf(logFiles[1].content)

ChangesBegin(param) == BeginQuery("changes", param, "read")

\* the log reads inside try/catch (a failing read leaves recentChanges
\* empty), fs.stat of the manifest, the response
ChangesRead ==
  /\ QueryAt("changes", "read")
  /\ UNCHANGED <<disk, registry, ui>>
  /\ \E ioOk \in BOOLEAN :
       query' = [query EXCEPT
         !.pc = "done",
         !.err = IF ioOk THEN @ ELSE "read failed",
         !.res = [code |-> 200,
                  recentChanges |-> IF ioOk THEN ReadRecentChanges(disk.logs, query.dir)
                                    ELSE <<>>,
                  manifestLastModified |-> IF disk.manifest.exists THEN "mtime"
                                           ELSE "null"]]

\* ------------------------------------------------------ buildTreeFromFiles
\* the function applied to a flat list of records
BuildTree ==
  /\ QueryAt("build_tree", "call")
  /\ UNCHANGED <<disk, registry, ui>>
  /\ Answer([code |-> 200, tree |-> buildTreeFromFiles(query.arg)])

\* ------------------------------------------------ the inputs of the reads
SeqsUpTo(S, n) == UNION {[1..k -> S] : k \in 0..n}

LifecycleIdle ==
  /\ procs = {}
  /\ nextPid = 1
  /\ reqs = <<>>
  /\ hostAlive = TRUE

\* record paths are relative to the watched directory
ManifestLines ==
  { Line("Timestamp:"), Line("Directory:"), Line("File Listing:"), Line("Summary:"),
    Line("Dashes"), Line("Other"),
    TotalLine("Total Files:", 0), TotalLine("Total Files:", 2),
    TotalLine("Total Directories:", 0), TotalLine("Total Directories:", 3),
    FileLine(<<"d", "/", "x">>, 4422), FileLine(<<"d", "/", "y">>, 128),
    FileLine(<<"d", "/", "e", "/", "x">>, 7), FileLine(<<"x">>, 1) }

ManifestTexts == SeqsUpTo(ManifestLines, MaxLines)

InitManifest ==
  /\ LifecycleIdle
  /\ ui = UiStart
  /\ registry = NoRegistry
  /\ query = NoQuery
  /\ \E f \in {AbsentFile, Unreadable(File(<<>>))} \cup {File(c) : c \in ManifestTexts} :
       disk = [NoDisk EXCEPT !.manifest = f]

ManifestNext ==
  \/ \E param \in Params : ManifestBegin(param) /\ UNCHANGED lifecycleVars
  \/ ManifestAccess /\ UNCHANGED lifecycleVars
  \/ ManifestRead /\ UNCHANGED lifecycleVars

SpecManifest == InitManifest /\ [][ManifestNext]_vars

\* records in any order, with repeated paths and with a path ("d", "d/e") that
\* is a directory prefix of another
TreeRecords ==
  { [path |-> path, type |-> "file", size |-> Len(path), modified |-> "m"] :
      path \in { <<"d">>, <<"x">>, <<"d", "/", "x">>, <<"d", "/", "y">>,
                 <<"d", "/", "e">>, <<"d", "/", "e", "/", "x">> } }

InitTree ==
  /\ LifecycleIdle
  /\ ui = UiStart
  /\ registry = NoRegistry
  /\ disk = NoDisk
  /\ \E files \in SeqsUpTo(TreeRecords, MaxRecords) :
       query = [NoQuery EXCEPT !.op = "build_tree", !.pc = "call", !.arg = files]

TreeNext == BuildTree /\ UNCHANGED lifecycleVars

SpecTree == InitTree /\ [][TreeNext]_vars

ExcludesTexts == SeqsUpTo({"\n", " ", "#", "/", "n"}, MaxChars)

SmallExcludes ==
  {AbsentFile, File(<<"n", "/">>), Unreadable(File(<<"n">>))}

InitExcludes ==
  /\ LifecycleIdle
  /\ ui = UiStart
  /\ registry = NoRegistry
  /\ query = NoQuery
  /\ \E big \in {File(c) : c \in ExcludesTexts}, small \in SmallExcludes :
       \/ disk = [NoDisk EXCEPT !.excludes = big, !.gitignore = small]
       \/ disk = [NoDisk EXCEPT !.excludes = small, !.gitignore = big]
       \/ disk = [NoDisk EXCEPT !.excludes = small, !.gitignore = AbsentFile]

ExcludesNext ==
  \/ \E param \in Params : ExcludesBegin(param) /\ UNCHANGED lifecycleVars
  \/ ExcludesPrimary /\ UNCHANGED lifecycleVars
  \/ ExcludesFallback /\ UNCHANGED lifecycleVars

SpecExcludes == InitExcludes /\ [][ExcludesNext]_vars

LogTexts ==
  SeqsUpTo({OtherLine, MarkedLine, ChangeLine(1), ChangeLine(2)}, MaxLogLines)

\* layouts of the logs root around one log text
LogLayouts(text) ==
  { NoLogs,
    [exists |-> TRUE, dirs |-> <<>>],
    [exists |-> TRUE, dirs |-> <<LogDir(<<"x_", "a">>, 1, <<LogFile(TRUE, text)>>)>>],
    [exists |-> TRUE, dirs |-> <<LogDir(<<"ldm_", "a">>, 1, <<LogFile(FALSE, text)>>)>>],
    [exists |-> TRUE,
     dirs |-> <<LogDir(<<"ldm_", "a">>, 1, <<LogFile(TRUE, <<ChangeLine(1)>>)>>),
                LogDir(<<"ldm_", "a", "_", "b">>, 2,
                       <<LogFile(FALSE, <<>>), LogFile(TRUE, text)>>)>>] }

InitChanges ==
  /\ LifecycleIdle
  /\ ui = UiStart
  /\ registry = NoRegistry
  /\ query = NoQuery
  /\ \E text \in LogTexts :
       disk = [NoDisk EXCEPT
                 !.logs = [exists |-> TRUE,
                           dirs |-> <<LogDir(<<"ldm_", "a", "_", "b">>, 1,
                                             <<LogFile(TRUE, text)>>)>>]]

ChangesNext ==
  \/ \E param \in Params : ChangesBegin(param) /\ UNCHANGED lifecycleVars
  \/ ChangesRead /\ UNCHANGED lifecycleVars

SpecChanges == InitChanges /\ [][ChangesNext]_vars

\* every read endpoint over a small set of directories: each file absent,
\* present or unreadable, each layout of the logs root
SmallManifests ==
  { AbsentFile, Unreadable(File(<<>>)),
    File(<<Line("File Listing:"), FileLine(<<"d", "/", "x">>, 4422)>>) }

InitRead ==
  /\ LifecycleIdle
  /\ ui = UiStart
  /\ registry = NoRegistry
  /\ query = NoQuery
  /\ \E m \in SmallManifests, e \in SmallExcludes, g \in SmallExcludes,
        l \in LogLayouts(<<ChangeLine(2), MarkedLine>>) :
       disk = [manifest |-> m, excludes |-> e, gitignore |-> g, logs |-> l]

\* the server goes on to its next read request (two in a behaviour)
QueryAgain ==
  /\ query.pc = "done"
  /\ query.served = <<>>
  /\ query' = [NoQuery EXCEPT !.served = <<[op |-> query.op, dir |-> query.dir,
                                            err |-> query.err, res |-> query.res]>>]
  /\ UNCHANGED <<disk, registry, ui>>

ReadNext ==
  \/ ManifestNext
  \/ ExcludesNext
  \/ ChangesNext
  \/ QueryAgain /\ UNCHANGED lifecycleVars

SpecRead == InitRead /\ [][ReadNext]_vars

\* ========================================================= registry endpoints
\* req.body.directory: absent, or a string
Missing == <<"undefined">>

\* !directory
IsFalsy(directory) == directory = Missing \/ directory = <<>>

\* the paths fs.access finds on the file system
ExistingPaths ==
  { DirA, DirAB, <<"/", "a", "$", "b">>, <<"/", "a", "\"">> }

\* ------------------------------------------------ the command line of exec
\* execAsync hands  bash "<REGISTRY_SCRIPT>" <cmd> "<directory>"  to /bin/sh -c
\* with the directory text put between the double quotes as it is.  Inside
\* double quotes the shell expands `$name` (the variables named here are not
\* set in the server's environment: the empty text) and a `"` ends the quoted
\* text.
NameChars == {"a", "b"}

RECURSIVE DropName(_)
DropName(s) == IF s # <<>> /\ s[1] \in NameChars THEN DropName(Tail(s)) ELSE s

RECURSIVE Expand(_)
Expand(s) ==
  IF s = <<>> THEN <<>>
  ELSE IF s[1] = "$" /\ Len(s) >= 2 /\ s[2] \in NameChars
    THEN Expand(DropName(Tail(s)))
  ELSE <<s[1]>> \o Expand(Tail(s))

\* sh reports a syntax error (exit status 2) for an unmatched `"`
ShellFails(directory) ==
  Cardinality({i \in 1..Len(directory) : directory[i] = "\""}) % 2 = 1

\* variant: the directory reaches the script as the caller wrote it
ShellWord_Escaped(directory) == directory

\* the argument the registry script receives
ShellWord(directory) == SelectSeq(Expand(directory), LAMBDA c : c # "\"")

\* -------------------------------------------------------- JSON.parse
\* the members of a parsed object: one per key, at the place of the key's
\* first occurrence in the text, with the value of its last occurrence
RECURSIVE EntriesFrom(_, _)
EntriesFrom(members, i) ==
  IF i > Len(members) THEN <<>>
  ELSE IF \E j \in 1..(i - 1) : members[j].directory = members[i].directory
    THEN EntriesFrom(members, i + 1)
  ELSE LET last == CHOOSE j \in i..Len(members) :
                     /\ members[j].directory = members[i].directory
                     /\ \A k \in (j + 1)..Len(members) :
                          members[k].directory # members[i].directory
       IN  <<members[last]>> \o EntriesFrom(members, i + 1)

\* variant: every member of the text is listed
ObjectEntries_Raw(members) == members

\* Object.entries(JSON.parse(content).monitors || {})
ObjectEntries(members) == EntriesFrom(members, 1)

\* ------------------------------------------------ the registry script
\* (lhi_directory_monitor_registry.sh is not in src/: its `add` registers the
\* directory unless the document holds it already, its `remove-direct` drops
\* the entry of the directory; both leave a document they cannot read alone
\* and exit with a nonzero status)
ScriptCall(cmd, word) == [cmd |-> cmd, word |-> word]

Logged(reg, cmd, word) == [reg EXCEPT !.calls = Append(@, ScriptCall(cmd, word))]

ScriptCanRead(reg) == ~reg.exists \/ (reg.readable /\ reg.valid)

ScriptAdd(reg, word) ==
  LET entries == IF reg.exists THEN ObjectEntries(reg.monitors) ELSE <<>> IN
  IF ~ScriptCanRead(reg) \/ HasKey(entries, word) THEN Logged(reg, "add", word)
  ELSE [Logged(reg, "add", word) EXCEPT
          !.exists = TRUE, !.readable = TRUE, !.valid = TRUE,
          !.monitors = Append(entries, Member(word, 0))]

ScriptRemove(reg, word) ==
  IF ~reg.exists \/ ~ScriptCanRead(reg) \/ ~HasKey(reg.monitors, word)
    THEN Logged(reg, "remove-direct", word)
    ELSE [Logged(reg, "remove-direct", word) EXCEPT
            !.monitors = SelectSeq(ObjectEntries(reg.monitors),
                                   LAMBDA m : m.directory # word)]

\* the request of a registry endpoint arrives
BeginCall(op, directory, pc) ==
  /\ query.pc = "idle"
  /\ query' = [query EXCEPT !.op = op, !.pc = pc, !.arg = directory]
  /\ UNCHANGED <<disk, registry, ui>>

\* res.status(400).json({ error })
Reject(message) ==
  query' = [query EXCEPT !.pc = "done", !.res = [code |-> 400, error |-> message]]

\* --------------------------------------------------- GET /api/registry
ListBegin == BeginCall("list", Missing, "access")

\* await fs.access(REGISTRY_FILE) inside the inner try/catch
ListAccess ==
  /\ QueryAt("list", "access")
  /\ UNCHANGED <<disk, registry, ui>>
  /\ IF registry.exists
       THEN query' = [query EXCEPT !.pc = "read"]
       ELSE Answer([code |-> 200, monitors |-> <<>>])

\* await fs.readFile, JSON.parse, the mapping to the array, the response;
\* every fault is caught by the inner catch
ListRead ==
  /\ QueryAt("list", "read")
  /\ UNCHANGED <<disk, registry, ui>>
  /\ IF registry.exists /\ registry.readable /\ registry.valid
       THEN Answer([code |-> 200,
                    monitors |->
                      LET entries == ObjectEntries(registry.monitors)
                      IN  [i \in 1..Len(entries) |->
                             [directory |-> entries[i].directory,
                              lastUpdate |-> entries[i].stamp]]])
       ELSE query' = [query EXCEPT !.pc = "done", !.err = "read failed",
                                   !.res = [code |-> 200, monitors |-> <<>>]]

\* ----------------------------------------------- POST /api/registry/add
\* the request arrives: if (!directory) return 400; fs.access is started
AddBegin(directory) ==
  IF IsFalsy(directory)
    THEN /\ query.pc = "idle"
         /\ query' = [query EXCEPT !.op = "add", !.pc = "done", !.arg = directory,
                        !.res = [code |-> 400, error |-> "Directory path is required"]]
         /\ UNCHANGED <<disk, registry, ui>>
    ELSE BeginCall("add", directory, "access")

\* variant: the directory is handed to the script unverified
AddAccess_Unverified ==
  /\ QueryAt("add", "access")
  /\ UNCHANGED <<disk, registry, ui>>
  /\ query' = [query EXCEPT !.pc = "exec"]

\* await fs.access(directory) inside try/catch; execAsync is started
AddAccess ==
  /\ QueryAt("add", "access")
  /\ UNCHANGED <<disk, registry, ui>>
  /\ IF query.arg \in ExistingPaths
       THEN query' = [query EXCEPT !.pc = "exec"]
       ELSE Reject("Directory does not exist")

\* execAsync(`bash "<script>" <cmd> "${directory}"`) settles, then the response
Exec(cmd, message) ==
  /\ UNCHANGED <<disk, ui>>
  /\ \E shellOk \in BOOLEAN, status \in {0, 1} :
       IF ~shellOk
         THEN AnswerError("spawn sh") /\ UNCHANGED registry
       ELSE IF ShellFails(query.arg)
         THEN AnswerError("Command failed") /\ UNCHANGED registry
       ELSE LET word  == ShellWord(query.arg)
                after == IF cmd = "add" THEN ScriptAdd(registry, word)
                         ELSE ScriptRemove(registry, word)
            IN  /\ registry' = after
                /\ ~ScriptCanRead(registry) => status = 1
                /\ after.monitors # registry.monitors => status = 0
                /\ IF status = 0
                     THEN Answer([code |-> 200, success |-> TRUE, message |-> message])
                     ELSE AnswerError("Command failed")

AddExec == QueryAt("add", "exec") /\ Exec("add", "Directory added")

\* -------------------------------------------- POST /api/registry/remove
\* the request arrives: if (!directory) return 400; execAsync is started
RemoveBegin(directory) ==
  IF IsFalsy(directory)
    THEN /\ query.pc = "idle"
         /\ query' = [query EXCEPT !.op = "remove", !.pc = "done", !.arg = directory,
                        !.res = [code |-> 400, error |-> "Directory path is required"]]
         /\ UNCHANGED <<disk, registry, ui>>
    ELSE BeginCall("remove", directory, "exec")

RemoveExec == QueryAt("remove", "exec") /\ Exec("remove-direct", "Directory removed")

\* ------------------------------------------- the inputs of the registry
\* the directory of a request body: absent, empty, a registered or
\* unregistered directory, a path that does not exist ("/b"), and existing
\* directories whose names hold a `$` or a `"`
Directories ==
  { Missing, <<>>, DirA, DirAB, <<"/", "b">>, <<"/", "a", "$", "b">>, <<"/", "a", "\"">> }

RegistryKeys == {DirA, DirAB, <<"/", "a", "$", "b">>}

RegistryMembers == {Member(d, t) : d \in RegistryKeys, t \in {0, 1}}

RegistryFiles ==
  {NoRegistry}
    \cup {RegistryFile(m) : m \in SeqsUpTo(RegistryMembers, MaxMembers)}
    \cup {[RegistryFile(<<Member(DirA, 0)>>) EXCEPT !.readable = FALSE],
          [RegistryFile(<<>>) EXCEPT !.valid = FALSE]}

InitRegistry ==
  /\ LifecycleIdle
  /\ ui = UiStart
  /\ disk = NoDisk
  /\ query = NoQuery
  /\ registry \in RegistryFiles

\* the server goes on to its next registry request
CallAgain ==
  /\ query.pc = "done"
  /\ Len(query.served) < MaxCalls - 1
  /\ query' = [NoQuery EXCEPT !.served = Append(query.served,
                                [op |-> query.op, dir |-> query.arg,
                                 err |-> query.err, res |-> query.res])]
  /\ UNCHANGED <<disk, registry, ui>>

RegistryNext ==
  \/ ListBegin /\ UNCHANGED lifecycleVars
  \/ ListAccess /\ UNCHANGED lifecycleVars
  \/ ListRead /\ UNCHANGED lifecycleVars
  \/ \E directory \in Directories : AddBegin(directory) /\ UNCHANGED lifecycleVars
  \/ AddAccess /\ UNCHANGED lifecycleVars
  \/ AddExec /\ UNCHANGED lifecycleVars
  \/ \E directory \in Directories : RemoveBegin(directory) /\ UNCHANGED lifecycleVars
  \/ RemoveExec /\ UNCHANGED lifecycleVars
  \/ CallAgain /\ UNCHANGED lifecycleVars

SpecRegistry == InitRegistry /\ [][RegistryNext]_vars

\* ------------------------------------- the file-reading endpoints together
\* registry list, excludes and manifest over files that are absent, present
\* or present and unreadable (for the registry also: not valid JSON)
InitFiles ==
  /\ LifecycleIdle
  /\ ui = UiStart
  /\ query = NoQuery
  /\ \E m \in SmallManifests, e \in SmallExcludes, g \in SmallExcludes :
       disk = [NoDisk EXCEPT !.manifest = m, !.excludes = e, !.gitignore = g]
  /\ registry \in
       { NoRegistry,
         RegistryFile(<<Member(DirA, 1), Member(DirAB, 0)>>),
         [RegistryFile(<<Member(DirA, 0)>>) EXCEPT !.readable = FALSE],
         [RegistryFile(<<>>) EXCEPT !.valid = FALSE] }

FilesNext ==
  \/ ManifestNext
  \/ ExcludesNext
  \/ ListBegin /\ UNCHANGED lifecycleVars
  \/ ListAccess /\ UNCHANGED lifecycleVars
  \/ ListRead /\ UNCHANGED lifecycleVars
  \/ QueryAgain /\ UNCHANGED lifecycleVars

SpecFiles == InitFiles /\ [][FilesNext]_vars

\* ------------------------------------------------ every endpoint together
\* the lifecycle requests of Spec (at most MaxEngineIssued of them), served
\* concurrently with one read or registry request, on a directory with files
\* and a registered directory
EngineDisk(stamped) ==
  [manifest  |-> File((IF stamped THEN <<Line("Timestamp:")>> ELSE <<>>)
                        \o <<Line("File Listing:"), FileLine(<<"d", "/", "x">>, 4422)>>),
   excludes  |-> AbsentFile,
   gitignore |-> File(<<"n", "/">>),
   logs      |-> [exists |-> TRUE,
                  dirs |-> <<LogDir(<<"ldm_", "a">>, 1,
                                    <<LogFile(TRUE, <<ChangeLine(1)>>)>>)>>]]

InitEngine ==
  /\ LifecycleIdle
  /\ ui = UiStart
  /\ query = NoQuery
  /\ \E stamped \in BOOLEAN : disk = EngineDisk(stamped)
  /\ registry = RegistryFile(<<Member(DirA, 0)>>)

\* the read request that was answered arrives once more, for the same
\* directory
QueryRepeated ==
  /\ query.pc = "done" /\ query.err = "none"
  /\ query.served = <<>>
  /\ query.op \in {"manifest", "excludes", "changes"}
  /\ query' = [query EXCEPT
                 !.pc = CASE query.op = "manifest" -> "access"
                          [] query.op = "excludes" -> "primary"
                          [] query.op = "changes"  -> "read",
                 !.res = NoBody,
                 !.served = <<[op |-> query.op, dir |-> query.dir,
                               err |-> query.err, res |-> query.res]>>]
  /\ UNCHANGED <<disk, registry, ui>>

EngineNext ==
  \/ Next /\ Len(reqs') <= MaxEngineIssued
  \/ ManifestNext
  \/ ExcludesNext
  \/ ChangesNext
  \/ QueryRepeated /\ UNCHANGED lifecycleVars
  \/ ListBegin /\ UNCHANGED lifecycleVars
  \/ ListAccess /\ UNCHANGED lifecycleVars
  \/ ListRead /\ UNCHANGED lifecycleVars
  \/ \E directory \in {DirA, DirAB} : AddBegin(directory) /\ UNCHANGED lifecycleVars
  \/ AddAccess /\ UNCHANGED lifecycleVars
  \/ AddExec /\ UNCHANGED lifecycleVars
  \/ \E directory \in {DirA, DirAB} : RemoveBegin(directory) /\ UNCHANGED lifecycleVars
  \/ RemoveExec /\ UNCHANGED lifecycleVars

SpecEngine == InitEngine /\ [][EngineNext]_vars

\* ============================================== the DirectoryMonitor component
\* The server is the component's environment here: a request is served in one
\* step, by the registry endpoints' own definitions.
serverVars == <<procs, nextPid, reqs, hostAlive, disk, query>>

\* a call of an async function: the request it waits for, and the values of
\* selectedDir and registry of the render whose closure it runs in
Call(op, pc, directory) ==
  [op |-> op, pc |-> pc, directory |-> directory,
   selectedDir |-> ui.selectedDir, registry |-> ui.registry,
   fetched |-> FALSE, data |-> <<>>]

CallIds == 1..Len(ui.calls)

Without(calls, i) == SubSeq(calls, 1, i - 1) \o SubSeq(calls, i + 1, Len(calls))

Begin(u, call) == [u EXCEPT !.calls = Append(@, call), !.sent = @ + 1]

\* the `monitors` array GET /api/registry answers with (the directories; the
\* component reads no other field of an entry)
Monitors(reg) ==
  IF reg.exists /\ reg.readable /\ reg.valid
    THEN LET entries == ObjectEntries(reg.monitors)
         IN  [i \in 1..Len(entries) |-> entries[i].directory]
    ELSE <<>>

\* the registry document without the record of the script's calls
Unlogged(reg) == [reg EXCEPT !.calls = <<>>]

\* the state updates of fetchRegistry when its response has arrived
FetchRegistryApply(u, c) ==
  IF ~c.fetched THEN u
  ELSE [u EXCEPT !.registry = c.data,
                 !.selectedDir = IF c.selectedDir = NoDir /\ c.data # <<>>
                                   THEN c.data[1] ELSE @]

\* onChange of the add dialog's input
TypePath(text) ==
  /\ ui' = [ui EXCEPT !.newDirPath = text]
  /\ UNCHANGED <<serverVars, registry>>

\* onClick of a directory tab
TabClick(dir) ==
  /\ \E i \in 1..Len(ui.registry) : ui.registry[i] = dir
  /\ ui' = [ui EXCEPT !.selectedDir = dir]
  /\ UNCHANGED <<serverVars, registry>>

\* fetchRegistry is called by the initial effect or by its interval
PollBegin ==
  /\ ui.sent < MaxUiCalls
  /\ ui' = Begin(ui, Call("poll", "fetch", NoDir))
  /\ UNCHANGED <<serverVars, registry>>

\* the request of a fetchRegistry call is answered (ok), or fails or is
\* answered with an error status: the call then sets nothing
RegistryServed(i) ==
  /\ ui.calls[i].pc = "fetch"
  /\ \E ok \in BOOLEAN :
       ui' = [ui EXCEPT !.calls[i].pc = "json",
                        !.calls[i].fetched = ok,
                        !.calls[i].data = IF ok THEN Monitors(registry) ELSE <<>>]
  /\ UNCHANGED <<serverVars, registry>>

\* a fetchRegistry call of the effect or the interval returns
PollReturn(i) ==
  /\ ui.calls[i].op = "poll" /\ ui.calls[i].pc = "json"
  /\ ui' = [FetchRegistryApply(ui, ui.calls[i]) EXCEPT !.calls = Without(@, i)]
  /\ UNCHANGED <<serverVars, registry>>

\* addDirectory is called (button, or the Enter key in the input)
AddClick ==
  /\ ui.sent < MaxUiCalls
  /\ Trim(ui.newDirPath) # <<>>
  /\ ui' = Begin([ui EXCEPT !.actionLoading = "add"],
                 Call("add", "post", Trim(ui.newDirPath)))
  /\ UNCHANGED <<serverVars, registry>>

\* removeDirectory(dir) is called by the X of a tab
RemoveClick(dir) ==
  /\ ui.sent < MaxUiCalls
  /\ \E i \in 1..Len(ui.registry) : ui.registry[i] = dir
  /\ ui' = Begin([ui EXCEPT !.actionLoading = "remove"], Call("remove", "post", dir))
  /\ UNCHANGED <<serverVars, registry>>

\* the POST of an addDirectory or removeDirectory call is served and its
\* response handled: ok, and fetchRegistry is awaited; an error status, or
\* no response (the catch), and the call returns
RegistryPosted(i) ==
  LET c == ui.calls[i] IN
  /\ c.pc = "post" /\ c.op \in {"add", "remove"}
  /\ \E outcome \in {"ok", "rejected", "throw"} :
       /\ outcome = "ok"
          => /\ ~IsFalsy(c.directory) /\ ~ShellFails(c.directory)
             /\ c.op = "add" => c.directory \in ExistingPaths
       /\ registry' = IF outcome # "ok" THEN registry
                      ELSE IF c.op = "add"
                        THEN Unlogged(ScriptAdd(registry, ShellWord(c.directory)))
                      ELSE Unlogged(ScriptRemove(registry, ShellWord(c.directory)))
       /\ ui' = IF outcome = "ok"
                  THEN [ui EXCEPT !.calls[i].pc = "fetch"]
                  ELSE [ui EXCEPT !.error = "failed", !.actionLoading = "null",
                                  !.calls = Without(@, i)]
  /\ UNCHANGED serverVars

\* addDirectory after `await fetchRegistry()`
AddReturn(i) ==
  LET c == ui.calls[i] IN
  /\ c.op = "add" /\ c.pc = "json"
  /\ ui' = [FetchRegistryApply(ui, c) EXCEPT
              !.newDirPath = <<>>, !.selectedDir = c.directory,
              !.actionLoading = "null", !.calls = Without(@, i)]
  /\ UNCHANGED <<serverVars, registry>>

\* removeDirectory after `await fetchRegistry()`
RemoveReturn(i) ==
  LET c == ui.calls[i]
      remaining == SelectSeq(c.registry, LAMBDA r : r # c.directory)
  IN
  /\ c.op = "remove" /\ c.pc = "json"
  /\ ui' = [FetchRegistryApply(ui, c) EXCEPT
              !.selectedDir = IF c.selectedDir = c.directory
                                THEN (IF remaining # <<>> THEN remaining[1] ELSE NoDir)
                                ELSE @,
              !.actionLoading = "null", !.calls = Without(@, i)]
  /\ UNCHANGED <<serverVars, registry>>

LifecycleOps == {"start", "stop", "refresh"}

\* disabled={actionLoading !== null} of the Start/Stop and Refresh buttons
ControlsDisabled(u, op) == u.actionLoading # "null"

\* startMonitor, stopMonitor or refreshManifest is called by its button (the
\* first button is Stop when the status last fetched says running)
LifecycleClick(op) ==
  /\ ui.sent < MaxUiCalls
  /\ ui.selectedDir # NoDir
  /\ ~ControlsDisabled(ui, op)
  /\ ui' = Begin([ui EXCEPT !.actionLoading = op,
                            !.error = IF op = "refresh" THEN @ ELSE "null"],
                 Call(op, "post", ui.selectedDir))
  /\ UNCHANGED <<serverVars, registry>>

\* the POST of a lifecycle call is answered: ok, and the follow-up fetches are
\* awaited; an error status, or no response, and the call returns
LifecyclePosted(i) ==
  LET c == ui.calls[i] IN
  /\ c.pc = "post" /\ c.op \in LifecycleOps
  /\ \E outcome \in {"ok", "rejected", "throw"} :
       ui' = IF outcome = "ok"
               THEN [ui EXCEPT !.calls[i].pc = "follow"]
               ELSE [ui EXCEPT !.error = IF c.op = "refresh" /\ outcome = "rejected"
                                           THEN @ ELSE "failed",
                               !.actionLoading = "null",
                               !.calls = Without(@, i)]
  /\ UNCHANGED <<serverVars, registry>>

\* the follow-up fetches have returned: setActionLoading(null)
LifecycleReturn(i) ==
  /\ ui.calls[i].pc = "follow"
  /\ ui' = [ui EXCEPT !.actionLoading = "null", !.calls = Without(@, i)]
  /\ UNCHANGED <<serverVars, registry>>

\* the texts typed into the add dialog: a directory with a blank after it,
\* and a blank
TypedPaths == { <<"/", "a", "/", "b", " ">>, <<" ">> }

InitUi ==
  /\ LifecycleIdle
  /\ ui = UiStart
  /\ disk = NoDisk
  /\ query = NoQuery
  /\ registry \in { RegistryFile(<<>>),
                     RegistryFile(<<Member(DirA, 0), Member(DirAB, 0)>>) }

UiNext ==
  \/ \E text \in TypedPaths : TypePath(text)
  \/ \E dir \in Dirs : TabClick(dir)
  \/ PollBegin
  \/ \E i \in CallIds : RegistryServed(i)
  \/ \E i \in CallIds : PollReturn(i)
  \/ AddClick
  \/ \E dir \in Dirs : RemoveClick(dir)
  \/ \E i \in CallIds : RegistryPosted(i)
  \/ \E i \in CallIds : AddReturn(i)
  \/ \E i \in CallIds : RemoveReturn(i)
  \/ \E op \in LifecycleOps : LifecycleClick(op)
  \/ \E i \in CallIds : LifecyclePosted(i)
  \/ \E i \in CallIds : LifecycleReturn(i)

SpecUi == InitUi /\ [][UiNext]_vars

\* ------------------------------------------------------------ properties
\* probe(d) would report running
Probed(d) == Pgrep(procs, "fswatch", d) # {}

Returned(u, op, msg) ==
  reqs[u].op = op /\ reqs[u].pc = "done" /\ reqs[u].res.msg = msg

\* request k had ended when i arrived, or arrived when j had ended: it was not
\* being served at any time from the arrival of i to the end of j
Outside(k, i, j) == k \in reqs[i].before \/ j \in reqs[k].before

\* C1: if start(d) has returned success after launching a watch process and
\* start(d) is called again with no stop(d) or refresh(d) in between, the
\* second call spawns nothing and returns "already running" (a second call
\* whose own pgrep could not be run is left aside).
C1_SecondStartAlreadyRunning ==
  \A i, j \in Uids :
    ( /\ Returned(i, "start", "started") /\ reqs[i].up
      /\ reqs[j].op = "start" /\ reqs[j].dir = reqs[i].dir
      /\ i \in reqs[j].before
      /\ \A k \in Uids : /\ reqs[k].op \in {"stop", "refresh"}
                         /\ reqs[k].dir = reqs[i].dir
                         => Outside(k, i, j) )
    => /\ reqs[j].child = 0
       /\ reqs[j].pc \notin {"spawn", "settle"}
       /\ reqs[j].pc = "done" => reqs[j].res.msg \in {"already running", "spawn sh"}

\* C1 does hold when no stop of any directory is served in between
C1_HoldsWithoutAnyStop ==
  \A i, j \in Uids :
    ( /\ Returned(i, "start", "started") /\ reqs[i].up
      /\ reqs[j].op = "start" /\ reqs[j].dir = reqs[i].dir
      /\ i \in reqs[j].before
      /\ \A k \in Uids : \/ reqs[k].op = "stop"
                         \/ (reqs[k].op = "refresh" /\ reqs[k].dir = reqs[i].dir)
                         => Outside(k, i, j) )
    => /\ reqs[j].child = 0
       /\ reqs[j].pc \notin {"spawn", "settle"}
       /\ reqs[j].pc = "done" => reqs[j].res.msg \in {"already running", "spawn sh"}

\* C2: two overlapping start(d) calls can both probe before either spawns and
\* both launch a watch process: nothing in the engine holds a start back, so a
\* start that waits for its pgrep can always run it, and a start that saw
\* nothing running can always spawn, whatever the other requests are doing.
C2_NoLockBetweenStarts ==
  \A u \in Uids :
    /\ At(u, "start", "probe") => ENABLED StartProbe(u)
    /\ At(u, "start", "spawn") => ENABLED StartSpawn(u)
    /\ \A v \in Uids :
         ( /\ u # v /\ reqs[u].op = "start" /\ reqs[v].op = "start"
           /\ reqs[u].child # 0 /\ reqs[v].child # 0 )
         => reqs[u].child # reqs[v].child

\* two start(d) calls that overlapped have both returned "started", and the
\* watch processes of both are running
C2_TwoWatchProcesses ==
  \E u, v \in Uids :
    /\ u < v /\ reqs[u].dir = reqs[v].dir
    /\ Returned(u, "start", "started") /\ Returned(v, "start", "started")
    /\ u \notin reqs[v].before
    /\ reqs[u].seen = {} /\ reqs[v].seen = {}
    /\ \E p, q \in procs :
         /\ p.kind = "fswatch" /\ q.kind = "fswatch"
         /\ p.pgid = reqs[u].child /\ q.pgid = reqs[v].child

\* C3: stop(d) signals every matching process, hence once stop(d) has
\* returned, with no start(d) or refresh(d) served since it arrived, probe(d)
\* reports running=false.
C3_StoppedMeansNotRunning ==
  \A i \in Uids :
    ( /\ Returned(i, "stop", "stopped")
      /\ \A k \in Uids : /\ reqs[k].op \in {"start", "refresh"}
                         /\ reqs[k].dir = reqs[i].dir
                         => k \in reqs[i].before )
    => ~Probed(reqs[i].dir)

\* C3 does hold when no start or refresh of any directory is served since
C3_HoldsWithoutAnyStart ==
  \A i \in Uids :
    ( /\ Returned(i, "stop", "stopped")
      /\ \A k \in Uids : reqs[k].op \in {"start", "refresh"} => k \in reqs[i].before )
    => ~Probed(reqs[i].dir)

\* C4: stop(d) is idempotent: with no process matching d it changes nothing in
\* the process table and does not fail, and the effect of stop(d) twice is the
\* effect of stop(d) once.
C4_StopIdempotent ==
  /\ [](\A d \in Dirs : StopEffect(StopEffect(procs, d), d) = StopEffect(procs, d))
  /\ [](\A u \in Uids : reqs[u].op = "stop" => reqs[u].err # "Command failed")
  /\ [][\A u \in Uids :
          ( /\ reqs[u].op = "stop" /\ InFlight(u) /\ reqs'[u] # reqs[u]
            /\ StopEffect(procs, reqs[u].dir) = procs )
          => procs' = procs /\ reqs'[u].err # "Command failed"]_vars

\* a stop(d) on an empty process table returned success, and a second stop(d)
\* after it returned the same
C4_StopTwiceOnNothing ==
  \E i, j \in Uids :
    /\ Returned(i, "stop", "stopped") /\ Returned(j, "stop", "stopped")
    /\ reqs[i].dir = reqs[j].dir /\ i \in reqs[j].before
    /\ reqs[i].sig = {} /\ reqs[j].sig = {}
    /\ procs = {} /\ nextPid = 1

\* C5: whenever start(d) has returned success and no stop is issued, a
\* probe(d) made after the return reports running=true, also when a
\* refresh(d) or another start(d) overlaps the call.
C5_StartSuccessMeansRunning ==
  \A u \in Uids :
    ( /\ reqs[u].op = "start" /\ reqs[u].pc = "done" /\ reqs[u].res.code = 200
      /\ \A k \in Uids : reqs[k].op # "stop" )
    => Probed(reqs[u].dir)

\* C5 does hold when, besides, no refresh overlaps the start call
C5_HoldsWithoutRefreshOverlap ==
  \A u \in Uids :
    ( /\ reqs[u].op = "start" /\ reqs[u].pc = "done" /\ reqs[u].res.code = 200
      /\ \A k \in Uids : reqs[k].op # "stop"
      /\ \A k \in Uids : reqs[k].op = "refresh"
                         => k \in reqs[u].before \/ u \in reqs[k].before )
    => Probed(reqs[u].dir)

\* C6: refresh(d) signals only the process group of the process it spawned:
\* every process it signals is in that group and was created by or after its
\* own spawn, so no process that existed before the call is signalled.
C6_RefreshSignalsOwnGroupOnly ==
  \A u \in Uids :
    reqs[u].op = "refresh"
    => \A p \in reqs[u].sig : p.pgid = reqs[u].child /\ p.pid >= reqs[u].child

\* a refresh(d) has signalled its group and returned, and a watch process of
\* the same directory that existed before the call is still running
C6_EarlierWatchSurvives ==
  \E u \in Uids :
    /\ Returned(u, "refresh", "refreshed")
    /\ reqs[u].sig # {}
    /\ \E p \in procs : p.kind = "fswatch" /\ p.dir = reqs[u].dir /\ p.pid < reqs[u].child

\* C7: if launching the watch utility fails during start(d), start(d) returns
\* a start error and leaves no watch process of its own.
C7_LaunchFailureIsStartError ==
  \A u \in Uids :
    (reqs[u].op = "start" /\ reqs[u].err = "spawn bash")
    => reqs[u].pc = "done" /\ reqs[u].res.code = 500 /\ reqs[u].child = 0

\* C8: every operation ends by returning one result or error value: no fault
\* leaves a handler, and the host keeps serving.
C8_EveryRequestAnswered ==
  /\ hostAlive
  /\ \A u \in Uids : reqs[u].pc # "lost"

\* C9: operations on one directory do not affect another: stop(d) signals no
\* process of another directory.
C9_StopSignalsOwnDirectoryOnly ==
  \A u \in Uids :
    reqs[u].op = "stop" => \A p \in reqs[u].sig : p.dir = reqs[u].dir

\* C10: probe(d) on a process table with no process matching d returns
\* running=false with pid and uptime absent, and is not an error (a probe
\* whose pgrep could not be run at all is left aside).
C10_ProbeNoMatch ==
  \A u \in Uids :
    ( /\ reqs[u].op = "status" /\ reqs[u].pc = "done"
      /\ reqs[u].err # "spawn sh" /\ reqs[u].seen = {} )
    => reqs[u].res = [code |-> 200, msg |-> "status", running |-> FALSE,
                      pid |-> 0, uptime |-> "null"]

\* a probe of a directory without watch process has answered while the watch
\* process that an earlier start launched for another directory is running
C10_ProbedIdleDirectory ==
  \E u, k \in Uids :
    /\ Returned(u, "status", "status") /\ reqs[u].seen = {} /\ ~reqs[u].res.running
    /\ k \in reqs[u].before /\ Returned(k, "start", "started")
    /\ reqs[k].dir # reqs[u].dir
    /\ \E p \in procs : p.kind = "fswatch" /\ p.pgid = reqs[k].child

\* C11: probe(d) on a process table with k >= 1 processes matching d returns
\* running=true and the pid of the first match in the order pgrep lists them
\* (ascending pid), for one match and for several.
C11_ProbeFirstMatch ==
  \A u \in Uids :
    ( /\ reqs[u].op = "status" /\ reqs[u].pc = "done" /\ reqs[u].seen # {} )
    => /\ reqs[u].res.code = 200 /\ reqs[u].res.msg = "status"
       /\ reqs[u].res.running
       /\ \E p \in reqs[u].seen : /\ reqs[u].res.pid = p.pid
                                  /\ \A q \in reqs[u].seen : p.pid <= q.pid

\* a probe has answered after its pgrep listed two watch processes of its own
\* directory, left by two racing starts
C11_ProbedDuplicates ==
  \E u \in Uids :
    /\ Returned(u, "status", "status") /\ reqs[u].res.running
    /\ \E p, q \in reqs[u].seen :
         /\ p.pid < q.pid /\ p.dir = reqs[u].dir /\ q.dir = reqs[u].dir
         /\ reqs[u].res.pid = p.pid

\* C12: when a process matches d but the uptime lookup for its pid fails (the
\* process is gone when ps runs), probe(d) still returns running=true with
\* that pid, and uptime is absent (null).
C12_UptimeAbsentWhenLookupFails ==
  [][\A u \in Uids :
       ( /\ u <= Len(reqs')
         /\ At(u, "status", "ps") /\ reqs'[u].pc = "done"
         /\ ~\E p \in procs : p.pid = reqs[u].pids[1] )
       => /\ reqs'[u].res.running
          /\ reqs'[u].res.pid = reqs[u].pids[1]
          /\ reqs'[u].res.uptime = "null"]_vars

\* ------------------------------------------- properties of the read endpoints
\* the manifest read endpoint has answered from a manifest file it could read
ManifestAnswered ==
  /\ query.op = "manifest" /\ query.pc = "done" /\ query.res.code = 200
  /\ disk.manifest.exists /\ disk.manifest.readable

\* line k of the text lies in a summary section / in a file-listing section:
\* the nearest section header above it is "Summary:" / "File Listing:"
InSection(lines, k, header) ==
  \E h \in 1..(k - 1) :
    /\ lines[h].kind = header
    /\ \A j \in (h + 1)..(k - 1) : lines[j].kind \notin {"File Listing:", "Summary:"}

\* the value of the last line of that kind inside a summary section, 0 if none
LastSummaryValue(lines, kind) ==
  LET at == {k \in 1..Len(lines) : lines[k].kind = kind /\ InSection(lines, k, "Summary:")}
  IN  IF at = {} THEN 0 ELSE lines[CHOOSE k \in at : \A j \in at : j <= k].n

\* the positions of the file lines inside a file-listing section
RecordLines(lines) ==
  {k \in 1..Len(lines) : lines[k].kind = "File" /\ InSection(lines, k, "File Listing:")}

\* the proper path prefixes of a slash-separated path: what precedes a slash
ProperPrefixes(path) == {SubSeq(path, 1, i - 1) : i \in {k \in 1..Len(path) : path[k] = "/"}}

ListedDirectories(lines) == UNION {ProperPrefixes(lines[k].path) : k \in RecordLines(lines)}

FileNodes(tree) == {k \in 1..Len(tree) : tree[k].type = "file"}

\* C13: the dual-source count policy, for each count independently:
\* total_files is the last `Total Files` value of the summary when non-zero,
\* otherwise the number of parsed records; total_directories is the last
\* `Total Directories` value when non-zero, otherwise the count derived from
\* the listing (0 without records).
C13_DualSourceCounts ==
  ManifestAnswered =>
    LET lines == disk.manifest.content
        tf == LastSummaryValue(lines, "Total Files:")
        td == LastSummaryValue(lines, "Total Directories:")
    IN  /\ query.res.total_files =
             IF tf # 0 THEN tf ELSE Cardinality(RecordLines(lines))
        /\ query.res.total_directories =
             IF td # 0 THEN td ELSE Cardinality(ListedDirectories(lines))

\* a manifest was parsed whose summary gives 2 files and no directory count
\* over a listing of one record: the file count is the summary's, the
\* directory count the listing's
C13_SummaryAndListingMixed ==
  /\ ManifestAnswered
  /\ Cardinality(RecordLines(disk.manifest.content)) = 1
  /\ LastSummaryValue(disk.manifest.content, "Total Files:") = 2
  /\ LastSummaryValue(disk.manifest.content, "Total Directories:") = 0
  /\ query.res.total_files = 2 /\ query.res.total_directories = 1

\* C14: when the summary gives no non-zero directory count and at least one
\* record was parsed, total_directories is the number of distinct proper path
\* prefixes of the record paths (a file's own path is never counted).
C14_DerivedDirectoryCount ==
  ( /\ ManifestAnswered
    /\ LastSummaryValue(disk.manifest.content, "Total Directories:") = 0
    /\ RecordLines(disk.manifest.content) # {} )
  => query.res.total_directories = Cardinality(ListedDirectories(disk.manifest.content))

\* three records under "d" and "d/e" were parsed without a summary: two
\* directories
C14_SharedPrefixesCountedOnce ==
  /\ ManifestAnswered
  /\ Cardinality(RecordLines(disk.manifest.content)) = 3
  /\ Cardinality(FileNodes(query.res.tree)) = 3
  /\ ListedDirectories(disk.manifest.content) = {<<"d">>, <<"d", "/", "e">>}
  /\ query.res.total_directories = 2

\* the tree builder has returned
TreeBuilt == query.op = "build_tree" /\ query.pc = "done"

\* the number of file nodes is the number of records, and every intermediate
\* path prefix of a record is the path of exactly one directory node
LeafAndDirectoryCounts(files, tree) ==
  /\ Cardinality(FileNodes(tree)) = Len(files)
  /\ \A prefix \in UNION {ProperPrefixes(files[j].path) : j \in 1..Len(files)} :
       Cardinality({k \in 1..Len(tree) :
                      tree[k].type = "directory" /\ tree[k].path = prefix}) = 1

\* C15: for every flat sequence of file records (any order, repeated paths, a
\* path that is also a directory prefix of another), the tree has as many
\* file nodes as there are records and each intermediate prefix is exactly
\* one directory node.
C15_LeafCountEqualsRecords ==
  TreeBuilt => LeafAndDirectoryCounts(query.arg, query.res.tree)

\* C15 as amended: the same for every sequence of records with relative,
\* pairwise distinct paths none of which is a directory prefix of another.
C15_LeafCountForDistinctPaths ==
  ( /\ TreeBuilt
    /\ \A i, j \in 1..Len(query.arg) :
         /\ query.arg[i].path[1] # "/"
         /\ i # j => query.arg[i].path # query.arg[j].path
         /\ query.arg[i].path \notin ProperPrefixes(query.arg[j].path) )
  => LeafAndDirectoryCounts(query.arg, query.res.tree)

\* a tree was built from three records in unsorted order, two directories deep
C15_BuiltUnsortedListing ==
  /\ TreeBuilt
  /\ Len(query.arg) = 3
  /\ query.arg[1].path = <<"d", "/", "e", "/", "x">>
  /\ query.arg[2].path = <<"x">>
  /\ query.arg[3].path = <<"d", "/", "x">>
  /\ Cardinality(FileNodes(query.res.tree)) = 3
  /\ Len(query.res.tree) = 5

\* C16: for manifest text without summary section whose listing holds n file
\* lines with distinct paths directly under one common parent directory, the
\* tree is one top-level directory node whose children are exactly the n
\* file nodes with the listed sizes; total_files = n, total_directories = 1.
C16_CommonParentEndToEnd ==
  LET lines == disk.manifest.content
      R     == RecordLines(lines)
      tree  == query.res.tree
  IN  ( /\ ManifestAnswered
        /\ \A k \in 1..Len(lines) : lines[k].kind # "Summary:"
        /\ R # {}
        /\ \A j, k \in R : j # k => lines[j].path # lines[k].path
        /\ \E parent \in UNION {ProperPrefixes(lines[k].path) : k \in R} :
             /\ parent # <<>>
             /\ \A k \in R : ProperPrefixes(lines[k].path) = {parent}
                             /\ Len(lines[k].path) > Len(parent) + 1 )
      => /\ query.res.total_files = Cardinality(R)
         /\ query.res.total_directories = 1
         /\ Len(tree) = Cardinality(R) + 1
         /\ \E top \in 1..Len(tree) :
              /\ tree[top].parent = 0 /\ tree[top].type = "directory"
              /\ \A k \in R : ProperPrefixes(lines[k].path) = {tree[top].path}
              /\ \A m \in 1..Len(tree) : m # top =>
                   tree[m].parent = top /\ tree[m].type = "file"
              /\ {<<tree[m].path, tree[m].size>> : m \in (1..Len(tree)) \ {top}}
                   = {<<lines[k].path, lines[k].size>> : k \in R}

\* the manifest with the two file lines of 4422 and 128 bytes under "d" and
\* no summary was parsed and built: one directory, two files, 4550 bytes
C16_TwoFilesUnderOneParent ==
  /\ ManifestAnswered
  /\ \A k \in 1..Len(disk.manifest.content) : disk.manifest.content[k].kind # "Summary:"
  /\ Cardinality(RecordLines(disk.manifest.content)) = 2
  /\ query.res.total_files = 2 /\ query.res.total_directories = 1
  /\ Len(query.res.tree) = 3
  /\ query.res.tree[1].type = "directory" /\ query.res.tree[1].path = <<"d">>
  /\ query.res.tree[2].parent = 1 /\ query.res.tree[3].parent = 1
  /\ query.res.tree[2].size + query.res.tree[3].size = 4550

\* the excludes endpoint has answered, and no read of a file that exists failed
ExcludesAnswered ==
  query.op = "excludes" /\ query.pc = "done" /\ query.res.code = 200 /\ query.err = "none"

\* C17: resolve_excludes selects its source by fixed priority: neither file
\* present: no patterns, source none; only the fallback present: its
\* patterns, source fallback; the primary present, with or without fallback:
\* the primary's patterns, source primary (a file that exists but cannot be
\* read is left aside).
C17_SourcePriority ==
  ExcludesAnswered =>
    IF disk.excludes.exists
      THEN /\ query.res.source = ".lhi_excludes"
           /\ query.res.patterns = parseExcludes(disk.excludes.content)
    ELSE IF disk.gitignore.exists
      THEN /\ query.res.source = ".gitignore"
           /\ query.res.patterns = parseExcludes(disk.gitignore.content)
    ELSE /\ query.res.source = "null"
         /\ query.res.patterns = <<>>

\* both files are present with different patterns, and the answer holds the
\* primary's
C17_PrimaryOverFallback ==
  /\ ExcludesAnswered
  /\ disk.excludes.exists /\ disk.gitignore.exists
  /\ query.res.source = ".lhi_excludes"
  /\ query.res.patterns = <<[pattern |-> <<"n">>, isDirectory |-> FALSE]>>
  /\ parseExcludes(disk.gitignore.content) = <<[pattern |-> <<"n", "/">>, isDirectory |-> TRUE]>>

\* the text the answer was parsed from
AnsweredText ==
  IF query.res.source = ".lhi_excludes" THEN disk.excludes.content
  ELSE disk.gitignore.content

\* the lines of a text by position: line b starts after the line break at b
\* (0: the start of the text) and ends before the next one
LineBreaks(text) == {0} \cup {i \in 1..Len(text) : text[i] = "\n"}

LineAfter(text, b) ==
  LET ends == {i \in (b + 1)..Len(text) : text[i] = "\n"} \cup {Len(text) + 1}
  IN  SubSeq(text, b + 1, (CHOOSE e \in ends : \A x \in ends : e <= x) - 1)

\* the line without its leading and trailing white space
RECURSIVE Stripped(_)
Stripped(line) ==
  IF line = <<>> THEN line
  ELSE IF Head(line) = " " THEN Stripped(Tail(line))
  ELSE IF line[Len(line)] = " " THEN Stripped(SubSeq(line, 1, Len(line) - 1))
  ELSE line

IsPatternLine(line) == Stripped(line) # <<>> /\ Head(Stripped(line)) # "#"

\* C18: exclude parsing returns, in source order, exactly one pattern per line
\* that after trimming is non-empty and does not start with "#"; the pattern
\* is the trimmed line and isDirectory is true exactly when it ends with "/".
C18_ParsedPatterns ==
  (ExcludesAnswered /\ query.res.source # "null") =>
    LET text     == AnsweredText
        kept     == {b \in LineBreaks(text) : IsPatternLine(LineAfter(text, b))}
        patterns == query.res.patterns
    IN  /\ Len(patterns) = Cardinality(kept)
        /\ \A b \in kept :
             LET i    == Cardinality({x \in kept : x <= b})
                 line == Stripped(LineAfter(text, b))
             IN  /\ patterns[i].pattern = line
                 /\ patterns[i].isDirectory = (line[Len(line)] = "/")

\* the file holding `n/`, a blank line and a comment line was parsed: exactly
\* one pattern, a directory
C18_DirectoryBlankComment ==
  /\ ExcludesAnswered
  /\ query.res.source = ".lhi_excludes"
  /\ disk.excludes.content = <<"n", "/", "\n", "\n", "#">>
  /\ query.res.patterns = <<[pattern |-> <<"n", "/">>, isDirectory |-> TRUE]>>

\* the changes endpoint has answered
ChangesAnswered == query.op = "changes" /\ query.pc = "done" /\ query.res.code = 200

\* the log text of SpecChanges
LogText == disk.logs.dirs[1].files[1].content

IsChange(line) == line.kind = "change"

\* the most recent min(5, k) of the k events, newest first
MostRecentFirst(events, result) ==
  /\ Len(result) = (IF Len(events) > 5 THEN 5 ELSE Len(events))
  /\ \A i \in 1..Len(result) :
       /\ result[i].timestamp = events[Len(events) + 1 - i].timestamp
       /\ result[i].file = events[Len(events) + 1 - i].file

\* C19: recent_changes returns the most recent min(5, k) change events, newest
\* first, k being the number of log lines that carry the marker and match
\* the grammar; a marker line that fails the grammar is skipped without
\* taking the place of a valid event.
C19_MostRecentFive ==
  (ChangesAnswered /\ query.err = "none")
  => MostRecentFirst(SelectSeq(LogText, IsChange), query.res.recentChanges)

\* C19 does hold of logs in which every marker line matches the grammar
C19_HoldsWithoutMalformedLines ==
  ( /\ ChangesAnswered /\ query.err = "none"
    /\ \A k \in 1..Len(LogText) : LogText[k].kind # "marked" )
  => MostRecentFirst(SelectSeq(LogText, IsChange), query.res.recentChanges)

\* the logs root holds nothing to read for the directory: no logs root, no
\* matching log directory, or no log file in the latest matching directory
NothingLogged(logs, watchPath) ==
  LET name     == NormalizeName(Basename(watchPath))
      matching == {i \in 1..Len(logs.dirs) : MatchesLogDir(logs.dirs[i].name, name)}
  IN  \/ ~logs.exists
      \/ matching = {}
      \/ \E i \in matching :
           /\ \A j \in matching : logs.dirs[j].mtime <= logs.dirs[i].mtime
           /\ \A f \in 1..Len(logs.dirs[i].files) : ~logs.dirs[i].files[f].isLog

\* C20: expected absence is a normal result: a manifest query without
\* manifest file returns a non-error result with total_files 0,
\* total_directories 0 and an empty tree; recent_changes without logs root,
\* matching log directory or log file returns an empty sequence, no error.
C20_AbsenceIsNormal ==
  /\ ( /\ query.op = "manifest" /\ query.pc = "done" /\ query.err = "none"
       /\ ~disk.manifest.exists )
     => /\ query.res.code = 200
        /\ query.res.total_files = 0 /\ query.res.total_directories = 0
        /\ query.res.tree = <<>>
  /\ ( /\ query.op = "changes" /\ query.pc = "done" /\ query.err # "URI malformed"
       /\ NothingLogged(disk.logs, query.dir) )
     => /\ query.res.code = 200
        /\ query.res.recentChanges = <<>>

\* on a directory without manifest and without logs root, a manifest query and
\* then a changes query have both been answered with the empty result
C20_NothingThere ==
  /\ ~disk.manifest.exists /\ ~disk.logs.exists
  /\ ChangesAnswered /\ query.err = "none" /\ query.res.recentChanges = <<>>
  /\ query.res.manifestLastModified = "null"
  /\ Len(query.served) = 1
  /\ query.served[1].op = "manifest" /\ query.served[1].res.code = 200
  /\ query.served[1].res.total_files = 0 /\ query.served[1].res.tree = <<>>

\* the input of a registry request the engine has to reject: no directory
\* argument, or (add only) a path that is not on the file system
InvalidInput(op, directory) ==
  \/ op \in {"add", "remove"} /\ IsFalsy(directory)
  \/ op = "add" /\ directory \notin ExistingPaths

\* C21: invalid input is rejected before any mutation: add with a missing
\* directory argument or with a path that does not exist, and remove with a
\* missing directory argument, return a rejected-request error (400), do not
\* invoke the registration tool and leave the registry unchanged.  Every
\* step of such a request leaves the registry document and the record of the
\* script's invocations as they were, and the request ends with status 400
\* without reaching the exec.
C21_InvalidInputRejected ==
  [][ ( /\ query' # query
        /\ query'.op \in {"add", "remove"}
        /\ InvalidInput(query'.op, query'.arg) )
      => /\ registry' = registry
         /\ query'.pc \in {"access", "done"}
         /\ query'.pc = "done" => query'.res.code = 400 ]_vars

\* on a registry that holds an entry, a remove without directory and then an
\* add of a path that does not exist have both been rejected
C21_RejectedBoth ==
  /\ registry.exists /\ registry.monitors # <<>> /\ registry.calls = <<>>
  /\ query.op = "add" /\ query.arg = <<"/", "b">>
  /\ query.pc = "done" /\ query.res.code = 400
  /\ Len(query.served) = 1
  /\ query.served[1].op = "remove" /\ query.served[1].dir = Missing
  /\ query.served[1].res.code = 400

\* the registry mapping: the entries of the parsed document
Mapping(reg) == IF reg.exists THEN ObjectEntries(reg.monitors) ELSE <<>>

Holds(reg, dir) == HasKey(Mapping(reg), dir)

NoShellSpecials(directory) ==
  \A i \in 1..Len(directory) : directory[i] \notin {"$", "\""}

\* the step of an add that finds its directory registered, or of a remove
\* that finds it unregistered, leaves the mapping as it was; a list answers
\* with each directory at most once
IdempotentStep(inputs) ==
  /\ ( /\ query.pc = "exec" /\ query'.pc = "done" /\ query.arg \in inputs
       /\ \/ query.op = "add" /\ Holds(registry, query.arg)
          \/ query.op = "remove" /\ ~Holds(registry, query.arg) )
     => Mapping(registry') = Mapping(registry)
  /\ ( query'.op = "list" /\ query'.pc = "done" /\ query' # query )
     => \A i, j \in 1..Len(query'.res.monitors) :
          query'.res.monitors[i].directory = query'.res.monitors[j].directory => i = j

\* C22: add and remove are idempotent on the registry mapping: add(p) on a
\* registry that already holds p, and remove(p) on a registry that does not
\* hold p, leave the mapping exactly as it was, and after any sequence of
\* add/remove calls list() holds each directory at most once.
C22_AddRemoveIdempotent == [][IdempotentStep(Directories)]_vars

\* C22 does hold of directories whose text has no `$` and no `"`
C22_HoldsWithoutShellSpecials ==
  [][IdempotentStep({d \in Directories : NoShellSpecials(d)})]_vars

\* the file is there and cannot be read or decoded
Unusable(f) == f.exists /\ ~f.readable

\* the request ended with an operational error that carries a message
OperationalError == query.res.code = 500 /\ query.res.error # "none"

\* C24: for every file-reading operation (registry list, excludes
\* resolution, manifest query): if the file was confirmed to exist and the
\* read or decode that follows fails, the operation returns an operational
\* error carrying the underlying message; it does not return an empty result
\* and does not fall through to a lower-priority source.
C24_ReadFailureIsError ==
  /\ ( /\ query.op = "list" /\ query.pc = "done"
       /\ registry.exists /\ ~(registry.readable /\ registry.valid) )
     => OperationalError
  /\ ( /\ query.op = "excludes" /\ query.pc = "done" /\ query.err # "URI malformed"
       /\ \/ Unusable(disk.excludes)
          \/ ~disk.excludes.exists /\ Unusable(disk.gitignore) )
     => OperationalError
  /\ ( /\ query.op = "manifest" /\ query.pc = "done" /\ query.err # "URI malformed"
       /\ Unusable(disk.manifest) )
     => OperationalError

\* of the three operations the manifest query alone reports the failed read
C24_ManifestReadFailureIsError ==
  ( /\ query.op = "manifest" /\ query.pc = "done" /\ query.err # "URI malformed"
    /\ Unusable(disk.manifest) )
  => OperationalError

\* some command line of the table holds the name of the watch utility and,
\* anywhere after it, the text of d
NameThenPath(table, d) ==
  \E p \in table :
    \E i, j \in 1..Len(Cmd(p)) :
      /\ Cmd(p)[i] = "fswatch"
      /\ i < j
      /\ j + Len(d) - 1 <= Len(Cmd(p))
      /\ SubSeq(Cmd(p), j, j + Len(d) - 1) = d

C26_RefreshSucceedsWhenChildGone ==
  \A u \in Uids :
    ( reqs[u].op = "refresh" /\ reqs[u].pc = "done" /\ reqs[u].child # 0 )
    => reqs[u].res.code = 200 /\ reqs[u].res.msg = "refreshed"

\* a refresh has returned success after a kill that found its process group
\* empty, a stop that ran during its wait having signalled its child
C26_ChildKilledByConcurrentStop ==
  \E u, v \in Uids :
    /\ reqs[u].op = "refresh" /\ reqs[u].pc = "done" /\ reqs[u].child # 0
    /\ reqs[u].sig = {} /\ reqs[u].res.code = 200
    /\ reqs[v].op = "stop" /\ reqs[v].dir = reqs[u].dir
    /\ \E p \in reqs[v].sig : p.pid = reqs[u].child

HoldsText(path, d) == \E j \in 1..Len(path) : IsSubstringAt(path, d, j)

Running(table, d) == \E p \in table : p.kind = "fswatch" /\ p.dir = d

\* every watch process was launched by the script that a start spawned, and
\* a step that takes a directory from Running to Stopped is a step of a stop
\* of that directory
LifecycleOrder ==
  /\ \A p \in procs' :
       p.kind = "fswatch"
       => \E u \in Uids : reqs[u].op = "start" /\ reqs[u].child = p.pgid
  /\ \A d \in Dirs :
       ( Running(procs, d) /\ ~Running(procs', d) )
       => \E u \in Uids : /\ reqs[u].op = "stop" /\ reqs[u].dir = d
                          /\ reqs'[u] # reqs[u]

\* C25: for each directory, under any sequence of start, stop and refresh
\* calls, the monitor passes through its states only in the order Stopped,
\* Starting, Running, Stopping, Stopped: it is never Running without a
\* preceding start that launched it, and never goes from Running to Stopped
\* except through a stop.
C25_LifecycleOrder == [][LifecycleOrder]_vars

\* C25 does hold while no refresh has been called and every call so far
\* names one and the same directory
C25_HoldsForOneDirectoryWithoutRefresh ==
  [][ ( \A u, v \in Uids : /\ reqs[u].op # "refresh"
                           /\ reqs[u].dir \in {NoDir, reqs[v].dir} \/ reqs[v].dir = NoDir )
      => LifecycleOrder ]_vars

\* C30: while parse_manifest scans any input text, the two parser modes are
\* mutually exclusive after every line: the parser is never in the
\* file-listing section and in the summary section at once; each section
\* header switches the one mode on and the other off, and both are off before
\* the first header.
C30_ModesExclusive ==
  ( ManifestAnswered /\ disk.manifest.exists /\ disk.manifest.readable )
  => LET lines == disk.manifest.content IN
     \A k \in 0..Len(lines) :
       LET st == Scan(lines, k) IN
       /\ ~(st.inFileListing /\ st.inSummary)
       /\ ( k >= 1 /\ lines[k].kind = "File Listing:" )
          => st.inFileListing /\ ~st.inSummary
       /\ ( k >= 1 /\ lines[k].kind = "Summary:" )
          => ~st.inFileListing /\ st.inSummary
       /\ ( \A j \in 1..k : lines[j].kind \notin {"File Listing:", "Summary:"} )
          => ~st.inFileListing /\ ~st.inSummary

\* a manifest has been parsed whose text starts with a line outside every
\* section and goes from the file listing to the summary and back
C30_ScannedBothSections ==
  /\ ManifestAnswered /\ disk.manifest.readable
  /\ Len(disk.manifest.content) = 4
  /\ disk.manifest.content[1].kind = "Total Files:"
  /\ disk.manifest.content[2].kind = "File Listing:"
  /\ disk.manifest.content[3].kind = "Summary:"
  /\ disk.manifest.content[4].kind = "File Listing:"

\* C23: the lifecycle and read operations never mutate the registry
\* themselves: start, stop, refresh, probe, manifest, excludes and
\* recent_changes leave the registry mapping unchanged; only add and remove
\* (through the registration tool) change it.  Every step of a handler of the
\* seven operations leaves the registry document as it is; a step that
\* changes it is the exec of an add or a remove, or a step of the monitor
\* script a start or refresh had launched (the event the lifecycle triggers).
C23_RegistryFrame ==
  [][ /\ reqs' # reqs => registry' = registry
      /\ ( query' # query /\ query'.op \in {"manifest", "excludes", "changes"} )
         => registry' = registry
      /\ registry' # registry
         => \/ /\ query.op \in {"add", "remove"} /\ query.pc = "exec"
               /\ query'.pc = "done" /\ reqs' = reqs
            \/ /\ reqs' = reqs /\ query' = query
               /\ \E h \in procs : h.kind = "helper" /\ h \notin procs' ]_vars

\* a refresh of the registered directory has returned and a manifest query has
\* been answered; the one change of the registry is the update that the
\* script of the refresh made to the entry of its directory
C23_OnlyTheScriptUpdated ==
  /\ \E u \in Uids : Returned(u, "refresh", "refreshed") /\ reqs[u].dir = DirA
  /\ \E u \in Uids : reqs[u].op = "stop" /\ reqs[u].pc = "done"
  /\ query.op = "manifest" /\ query.pc = "done" /\ query.res.code = 200
  /\ registry = RegistryFile(<<Member(DirA, 1)>>)

\* the answer of a probe is what the process table holds when its pgrep and
\* its ps run: running and pid by the matching command lines, uptime by ps
\* (a ps whose shell could not be spawned leaves uptime null)
ProbeByTable ==
  \A u \in Uids :
    /\ ( /\ reqs[u].op = "status" /\ reqs[u].pc = "pgrep"
         /\ reqs'[u].pc # "pgrep" /\ reqs'[u].err = "none" )
       => LET m == {p \in procs : NameThenPath({p}, reqs[u].dir)} IN
          IF m = {}
            THEN /\ reqs'[u].pc = "done"
                 /\ reqs'[u].res = [code |-> 200, msg |-> "status", running |-> FALSE,
                                    pid |-> 0, uptime |-> "null"]
            ELSE /\ reqs'[u].pc = "ps"
                 /\ reqs'[u].pids[1] \in {p.pid : p \in m}
                 /\ \A p \in m : reqs'[u].pids[1] <= p.pid
    /\ ( reqs[u].op = "status" /\ reqs[u].pc = "ps" /\ reqs'[u].pc # "ps" )
       => /\ reqs'[u].pc = "done"
          /\ reqs'[u].res.running /\ reqs'[u].res.pid = reqs[u].pids[1]
          /\ reqs'[u].res.uptime \in
               {"null", IF \E p \in procs : p.pid = reqs[u].pids[1] THEN "etime" ELSE ""}

\* a read request that was served twice on the same files got the same answer
\* both times, whatever was called in between (hidden: the fields of the
\* answers left out of the comparison)
SameAnswerAgain(hidden) ==
  ( /\ query.pc = "done" /\ query.err = "none" /\ query.served # <<>> )
  => \A f \in DOMAIN query.res \ hidden : query.res[f] = query.served[1].res[f]

Undated == parseTextManifest(disk.manifest.content).timestamp = "null"

InListingSection(lines, k) ==
  \E h \in 1..(k - 1) :
    /\ lines[h].kind = "File Listing:"
    /\ \A j \in (h + 1)..(k - 1) : lines[j].kind # "Summary:"

\* the records of the grammar-matching lines among the first k lines that lie
\* inside a file-listing section, in the order of the lines
RECURSIVE ListedRecords(_, _)
ListedRecords(lines, k) ==
  IF k = 0 THEN <<>>
  ELSE ListedRecords(lines, k - 1) \o
         ( IF lines[k].kind = "File" /\ InListingSection(lines, k)
             THEN <<[path |-> lines[k].path, type |-> "file",
                     size |-> lines[k].size, modified |-> "m"]>>
             ELSE <<>> )

\* C31: the file records produced by parse_manifest are exactly, and in input
\* order, the lines that lie inside a file-listing section and match the
\* record grammar: a non-matching line inside the listing, and a
\* grammar-matching line outside the listing (before the first header or
\* inside the summary section), adds no record and raises no error.
C31_RecordsAreListedMatches ==
  ( /\ query.op = "manifest" /\ query.pc = "done" /\ query.err # "URI malformed"
    /\ disk.manifest.exists /\ disk.manifest.readable )
  => LET lines  == disk.manifest.content
         listed == ListedRecords(lines, Len(lines))
     IN  /\ parseTextManifest(lines).files = listed
         /\ \A k \in 1..Len(lines) :
              ( lines[k].kind # "File" \/ ~InListingSection(lines, k) )
              => Scan(lines, k).files = Scan(lines, k - 1).files
         /\ query.err = "none" /\ query.res.code = 200
         /\ query.res.tree = buildTreeFromFiles(listed)

\* a manifest has been parsed that holds a record line before the first
\* header, a stray line inside the listing and a record line after it
C31_StrayAndOutsideLines ==
  /\ ManifestAnswered /\ disk.manifest.readable
  /\ Len(disk.manifest.content) = 4
  /\ disk.manifest.content[1] = FileLine(<<"x">>, 1)
  /\ disk.manifest.content[2].kind = "File Listing:"
  /\ disk.manifest.content[3].kind = "Other"
  /\ disk.manifest.content[4] = FileLine(<<"d", "/", "x">>, 4422)
  /\ Len(query.res.tree) = 2 /\ query.res.total_files = 1

\* the shape of a tree: siblings differ in their cumulative paths, a
\* top-level node's path is one segment, a child's path is the path of its
\* parent, a slash and one segment, and a node with children is a directory
WellNested(tree) ==
  /\ \A k, m \in 1..Len(tree) :
       ( k # m /\ tree[k].parent = tree[m].parent ) => tree[k].path # tree[m].path
  /\ \A k \in 1..Len(tree) :
       LET path == tree[k].path IN
       IF tree[k].parent = 0
         THEN Len(Split(path, "/")) = 1
         ELSE LET up == tree[tree[k].parent] IN
              /\ up.type = "directory"
              /\ Len(path) > Len(up.path) + 1
              /\ SubSeq(path, 1, Len(up.path)) = up.path
              /\ path[Len(up.path) + 1] = "/"
              /\ Len(Split(path, "/")) = Len(Split(up.path, "/")) + 1

\* C32: in every tree returned by build_tree, for every input sequence
\* (including one where a record's path is a proper prefix of another
\* record's path): no two siblings have the same cumulative path, every
\* top-level node's path has exactly one segment, every child's path is its
\* parent's path plus one segment, and only directory-kind nodes have
\* children.
C32_TreeWellNested ==
  TreeBuilt => WellNested(query.res.tree)

\* the same for the input sequences in which no record's path is a proper
\* prefix of the path of a record that comes after it
C32_HoldsWithoutEarlierPrefix ==
  ( /\ TreeBuilt
    /\ \A i, j \in 1..Len(query.arg) :
         i < j => query.arg[i].path \notin ProperPrefixes(query.arg[j].path) )
  => WellNested(query.res.tree)

\* the path of record j passes through the path x: x is the whole path or
\* the path up to one of its slashes
PassesThrough(files, j, x) ==
  LET path == files[j].path IN
  \/ path = x
  \/ /\ Len(path) > Len(x) /\ SubSeq(path, 1, Len(x)) = x /\ path[Len(x) + 1] = "/"

\* the first record whose path passes through x (0: none)
FirstThrough(files, x) ==
  IF \E j \in 1..Len(files) : PassesThrough(files, j, x)
    THEN CHOOSE j \in 1..Len(files) :
           /\ PassesThrough(files, j, x)
           /\ \A i \in 1..(j - 1) : ~PassesThrough(files, i, x)
    ELSE 0

\* C33: build_tree orders siblings by first appearance: at every level, node
\* x precedes node y exactly when the first input record whose path passes
\* through x comes before the first input record whose path passes through
\* y; the order is never re-sorted lexicographically.  (The nodes of the
\* tree are kept in the order in which they were pushed, so among the nodes
\* of one children array the smaller index is the earlier place.)
C33_SiblingsInFirstSeenOrder ==
  TreeBuilt
  => LET files == query.arg
         tree  == query.res.tree
     IN  \A k, m \in 1..Len(tree) :
           ( k # m /\ tree[k].parent = tree[m].parent )
           => /\ FirstThrough(files, tree[k].path) >= 1
              /\ ( k < m <=> FirstThrough(files, tree[k].path)
                               < FirstThrough(files, tree[m].path) )

\* a tree was built from the records "x", "d/y", "d/x": at the top level "x"
\* stands before "d", below "d" the node "d/y" before "d/x"
C33_BuiltAgainstTheAlphabet ==
  /\ TreeBuilt
  /\ Len(query.arg) = 3
  /\ query.arg[1].path = <<"x">>
  /\ query.arg[2].path = <<"d", "/", "y">>
  /\ query.arg[3].path = <<"d", "/", "x">>
  /\ Len(query.res.tree) = 4
  /\ query.res.tree[1].path = <<"x">> /\ query.res.tree[1].parent = 0
  /\ query.res.tree[2].path = <<"d">> /\ query.res.tree[2].parent = 0
  /\ query.res.tree[3].path = <<"d", "/", "y">> /\ query.res.tree[3].parent = 2
  /\ query.res.tree[4].path = <<"d", "/", "x">> /\ query.res.tree[4].parent = 2

\* the lifecycle calls of the component: those whose request is in flight,
\* and those that have not returned
LifecycleInFlight ==
  {i \in CallIds : ui.calls[i].op \in LifecycleOps /\ ui.calls[i].pc = "post"}

LifecycleRunning == {i \in CallIds : ui.calls[i].op \in LifecycleOps}

\* C34: in one UI instance, at most one lifecycle request (start, stop or
\* refresh) is in flight at any time, under every interleaving of button
\* clicks and responses, including add and remove-directory actions that run
\* at the same time: the controls that issue lifecycle requests stay disabled
\* from the moment a lifecycle request is sent until its response has been
\* handled.
C34_OneLifecycleRequest ==
  /\ Cardinality(LifecycleInFlight) <= 1
  /\ LifecycleRunning # {} => \A op \in LifecycleOps : ControlsDisabled(ui, op)

\* no call of the component's async functions is running
Settled == ui.calls = <<>>

Listed(dir) == \E i \in 1..Len(ui.registry) : ui.registry[i] = dir

\* C35: in the UI, after any sequence of registry polls, add-directory and
\* remove-directory actions has settled, the selected directory is either
\* none or a directory present in the last fetched registry list; in
\* particular after the selected directory is removed, the selection moves
\* to a remaining registered directory or to none.
C35_SelectionIsListed ==
  Settled => ( ui.selectedDir = NoDir \/ Listed(ui.selectedDir) )

\* both directories were removed by two remove calls running at the same
\* time, the empty list was fetched, no request failed, and the second
\* directory is selected
C35_RemovedDirectorySelected ==
  /\ Settled
  /\ registry.monitors = <<>> /\ ui.registry = <<>>
  /\ ui.error = "null"
  /\ ui.selectedDir = DirAB
  /\ ui.sent = 3 /\ ui.newDirPath = <<>>

====
